---- MODULE Spec2Model ----
(***************************************************************************)
(* A model of facet's MessagePack serializer (facet-msgpack/to_msgpack.rs) *)
(* and of the derive macro's naming engine (facet-derive-emit/lib.rs).     *)
(*                                                                         *)
(* Numbers.  TLC's integers are 32 bits wide, the program's go to 64, so   *)
(* an integer n is held as four 16-bit limbs <<a3, a2, a1, a0>> with       *)
(*     n = a3 * 2^48 + a2 * 2^32 + a1 * 2^16 + a0,                         *)
(* a2, a1, a0 in 0..65535 and a3 in -32768..65535 (negative for a negative *)
(* n: the limbs are n's two's complement, the top one read signed).        *)
(*                                                                         *)
(* Byte strings.  A &str / &[u8] is [bytes |-> <<b1, ..>>, pad |-> n]: the *)
(* explicit bytes followed by n further bytes whose values play no part    *)
(* (the program copies them and never looks at them), so that strings of   *)
(* 65536 or 2^32 bytes can be written down.                                *)
(***************************************************************************)
EXTENDS Integers, Sequences, FiniteSets, TLC

\* ------------------------------------------------------------------ bounds

\* Integers and lengths are sampled within Spread of every range edge.
Spread == 1
\* A sampled identifier has at most MaxIdentLen characters.
MaxIdentLen == 4
\* A struct of the sampled inputs has at most MaxFields fields.
MaxFields == 2
\* The sink rejects the write_all call number failAt, 1..MaxFailAt (0: none).
MaxFailAt == 3
\* A sampled container has at most MaxContainerAttrs attributes.
MaxContainerAttrs == 1
\* A sampled field has at most MaxFieldAttrs attributes.
MaxFieldAttrs == 2
\* NumCallers callers serialize concurrently; between them they call again,
\* on the value they serialized before, at most MaxRepeats times.
NumCallers == 2
MaxRepeats == 1
\* Sample literals group their digits by up to MaxGroup, between up to MaxPad
\* spaces.
MaxGroup == 4
MaxPad == 1

\* ----------------------------------------------------------------- numbers

\* 2^16, the base of the limbs.
Limb == 256 * 256

Zero == <<0, 0, 0, 0>>

\* The limbs of a TLC integer i (|i| < 2^31).
FromInt(i) ==
    IF i >= 0 THEN <<0, 0, i \div Limb, i % Limb>>
    ELSE <<-1, Limb - 1, (i \div Limb) % Limb, i % Limb>>

\* n + k for a small TLC integer k, carried through the limbs.
NumAdd(n, k) ==
    LET s0 == n[4] + k
        s1 == n[3] + (s0 \div Limb)
        s2 == n[2] + (s1 \div Limb)
    IN  <<n[1] + (s2 \div Limb), s2 % Limb, s1 % Limb, s0 % Limb>>

NumLT(a, b) ==
    \/ a[1] < b[1]
    \/ a[1] = b[1] /\ a[2] < b[2]
    \/ a[1] = b[1] /\ a[2] = b[2] /\ a[3] < b[3]
    \/ a[1] = b[1] /\ a[2] = b[2] /\ a[3] = b[3] /\ a[4] < b[4]

NumLE(a, b) == a = b \/ NumLT(a, b)

\* lo..=hi, a range pattern of a match.
InR(n, lo, hi) == NumLE(lo, n) /\ NumLE(n, hi)

I32Min == <<-1, 65535, 32768, 0>>
U32Max == <<0, 0, 65535, 65535>>
I64Min == <<-32768, 0, 0, 0>>
I64Max == <<32767, 65535, 65535, 65535>>
U64Max == <<65535, 65535, 65535, 65535>>

\* The integer types the serializer knows, and each one's MIN and MAX.
UnsignedTypes == {"u8", "u16", "u32", "u64"}
SignedTypes == {"i8", "i16", "i32", "i64"}
IntTypes == UnsignedTypes \cup SignedTypes

TypeMin(ty) ==
    CASE ty = "i8" -> FromInt(-128)
      [] ty = "i16" -> FromInt(-32768)
      [] ty = "i32" -> I32Min
      [] ty = "i64" -> I64Min
      [] OTHER -> Zero

TypeMax(ty) ==
    CASE ty = "u8" -> FromInt(255)
      [] ty = "u16" -> FromInt(65535)
      [] ty = "u32" -> U32Max
      [] ty = "u64" -> U64Max
      [] ty = "i8" -> FromInt(127)
      [] ty = "i16" -> FromInt(32767)
      [] ty = "i32" -> FromInt(2147483647)
      [] ty = "i64" -> I64Max

InType(n, ty) == InR(n, TypeMin(ty), TypeMax(ty))

\* ------------------------------------------------------------- conversions

\* `n as u8`: the low 8 bits.
AsU8(n) == n[4] % 256

\* `(x as u16).to_be_bytes()` of the 16-bit limb x.
Be16(x) == <<(x % Limb) \div 256, x % 256>>

\* `(n as u16).to_be_bytes()`, `(n as i16).to_be_bytes()`.
BeBytes2(n) == Be16(n[4])

\* `(n as u32).to_be_bytes()`, `(n as i32).to_be_bytes()`.
BeBytes4(n) == Be16(n[3]) \o Be16(n[4])

\* `(n as u64).to_be_bytes()`, `n.to_be_bytes()` of an i64.
BeBytes8(n) == Be16(n[1]) \o Be16(n[2]) \o Be16(n[3]) \o Be16(n[4])

\* a | b on bytes, bit by bit.
RECURSIVE BitOr(_, _)
BitOr(a, b) ==
    IF a = 0 THEN b
    ELSE IF b = 0 THEN a
    ELSE (IF a % 2 = 1 \/ b % 2 = 1 THEN 1 ELSE 0) + 2 * BitOr(a \div 2, b \div 2)

\* ------------------------------------------------------------ byte strings

Lit(bs) == [bytes |-> bs, pad |-> Zero]

\* A string of n bytes whose values are left open.
Padding(n) == [bytes |-> <<>>, pad |-> n]

\* s.as_bytes().len()
StrLen(s) == NumAdd(s.pad, Len(s.bytes))

\* ---------------------------------------------------------------- writers
\* Each writer is the sequence of the write_all calls it makes, in order; a
\* call that fails ends the writer there (the ? operator, or the tail call).

\* write_str with the fixstr arm one too wide (0..=32).
write_str_wide_fixstr(s) ==
    LET len == StrLen(s)
    IN  (IF InR(len, FromInt(0), FromInt(32))
            THEN <<Lit(<<BitOr(160, AsU8(len))>>)>>
         ELSE IF InR(len, FromInt(33), FromInt(255))
            THEN <<Lit(<<217, AsU8(len)>>)>>
         ELSE IF InR(len, FromInt(256), FromInt(65535))
            THEN <<Lit(<<218>>), Lit(BeBytes2(len))>>
         ELSE <<Lit(<<219>>), Lit(BeBytes4(len))>>)
        \o <<s>>

write_str(s) ==
    LET len == StrLen(s)
    IN  (IF InR(len, FromInt(0), FromInt(31))
            THEN <<Lit(<<BitOr(160, AsU8(len))>>)>>
         ELSE IF InR(len, FromInt(32), FromInt(255))
            THEN <<Lit(<<217, AsU8(len)>>)>>
         ELSE IF InR(len, FromInt(256), FromInt(65535))
            THEN <<Lit(<<218>>), Lit(BeBytes2(len))>>
         ELSE <<Lit(<<219>>), Lit(BeBytes4(len))>>)
        \o <<s>>

write_u8(n) ==
    IF InR(n, FromInt(0), FromInt(127))
        THEN <<Lit(<<n[4]>>)>>
    ELSE <<Lit(<<204, n[4]>>)>>

write_u16(n) ==
    IF InR(n, FromInt(0), FromInt(127))
        THEN <<Lit(<<AsU8(n)>>)>>
    ELSE IF InR(n, FromInt(128), FromInt(255))
        THEN <<Lit(<<204, AsU8(n)>>)>>
    ELSE <<Lit(<<205>>), Lit(BeBytes2(n))>>

\* write_u32 with the uint16 arm one too wide (256..=65536).
write_u32_wide_u16(n) ==
    IF InR(n, FromInt(0), FromInt(127))
        THEN <<Lit(<<AsU8(n)>>)>>
    ELSE IF InR(n, FromInt(128), FromInt(255))
        THEN <<Lit(<<204, AsU8(n)>>)>>
    ELSE IF InR(n, FromInt(256), FromInt(65536))
        THEN <<Lit(<<205>>), Lit(BeBytes2(n))>>
    ELSE <<Lit(<<206>>), Lit(BeBytes4(n))>>

write_u32(n) ==
    IF InR(n, FromInt(0), FromInt(127))
        THEN <<Lit(<<AsU8(n)>>)>>
    ELSE IF InR(n, FromInt(128), FromInt(255))
        THEN <<Lit(<<204, AsU8(n)>>)>>
    ELSE IF InR(n, FromInt(256), FromInt(65535))
        THEN <<Lit(<<205>>), Lit(BeBytes2(n))>>
    ELSE <<Lit(<<206>>), Lit(BeBytes4(n))>>

write_u64(n) ==
    IF InR(n, FromInt(0), FromInt(127))
        THEN <<Lit(<<AsU8(n)>>)>>
    ELSE IF InR(n, FromInt(128), FromInt(255))
        THEN <<Lit(<<204, AsU8(n)>>)>>
    ELSE IF InR(n, FromInt(256), FromInt(65535))
        THEN <<Lit(<<205>>), Lit(BeBytes2(n))>>
    ELSE IF InR(n, FromInt(65536), U32Max)
        THEN <<Lit(<<206>>), Lit(BeBytes4(n))>>
    ELSE <<Lit(<<207>>), Lit(BeBytes8(n))>>

\* write_i8 with the negative fixint arm one too wide (-33..=-1).
write_i8_wide_fixint(n) ==
    CASE InR(n, FromInt(-33), FromInt(-1)) -> <<Lit(<<AsU8(n)>>)>>
      [] InR(n, FromInt(-128), FromInt(-34)) -> <<Lit(<<208, AsU8(n)>>)>>
      [] InR(n, FromInt(0), FromInt(127)) -> <<Lit(<<AsU8(n)>>)>>

\* The signed writers' matches have no catch-all arm: the CASEs have no OTHER.
write_i8(n) ==
    CASE InR(n, FromInt(-32), FromInt(-1)) -> <<Lit(<<AsU8(n)>>)>>
      [] InR(n, FromInt(-128), FromInt(-33)) -> <<Lit(<<208, AsU8(n)>>)>>
      [] InR(n, FromInt(0), FromInt(127)) -> <<Lit(<<AsU8(n)>>)>>

\* write_i16 keeping to the signed formats: int16 for what is past an i8.
write_i16_signed_only(n) ==
    CASE InR(n, FromInt(-32), FromInt(127)) -> <<Lit(<<AsU8(n)>>)>>
      [] InR(n, FromInt(-128), FromInt(-33)) -> <<Lit(<<208, AsU8(n)>>)>>
      [] OTHER -> <<Lit(<<209>>), Lit(BeBytes2(n))>>

write_i16(n) ==
    CASE InR(n, FromInt(-32), FromInt(-1)) -> <<Lit(<<AsU8(n)>>)>>
      [] InR(n, FromInt(-128), FromInt(-33)) -> <<Lit(<<208, AsU8(n)>>)>>
      [] InR(n, FromInt(-32768), FromInt(-129)) ->
            <<Lit(<<209>>), Lit(BeBytes2(n))>>
      [] InR(n, FromInt(0), FromInt(127)) -> <<Lit(<<AsU8(n)>>)>>
      [] InR(n, FromInt(128), FromInt(255)) -> <<Lit(<<204, AsU8(n)>>)>>
      [] InR(n, FromInt(256), FromInt(32767)) ->
            <<Lit(<<205>>), Lit(BeBytes2(n))>>

write_i32(n) ==
    CASE InR(n, FromInt(-32), FromInt(-1)) -> <<Lit(<<AsU8(n)>>)>>
      [] InR(n, FromInt(-128), FromInt(-33)) -> <<Lit(<<208, AsU8(n)>>)>>
      [] InR(n, FromInt(-32768), FromInt(-129)) ->
            <<Lit(<<209>>), Lit(BeBytes2(n))>>
      [] InR(n, I32Min, FromInt(-32769)) ->
            <<Lit(<<210>>), Lit(BeBytes4(n))>>
      [] InR(n, FromInt(0), FromInt(127)) -> <<Lit(<<AsU8(n)>>)>>
      [] InR(n, FromInt(128), FromInt(255)) -> <<Lit(<<204, AsU8(n)>>)>>
      [] InR(n, FromInt(256), FromInt(65535)) ->
            <<Lit(<<205>>), Lit(BeBytes2(n))>>
      [] InR(n, FromInt(65536), FromInt(2147483647)) ->
            <<Lit(<<206>>), Lit(BeBytes4(n))>>

write_i64(n) ==
    CASE InR(n, FromInt(-32), FromInt(-1)) -> <<Lit(<<AsU8(n)>>)>>
      [] InR(n, FromInt(-128), FromInt(-33)) -> <<Lit(<<208, AsU8(n)>>)>>
      [] InR(n, FromInt(-32768), FromInt(-129)) ->
            <<Lit(<<209>>), Lit(BeBytes2(n))>>
      [] InR(n, I32Min, FromInt(-32769)) ->
            <<Lit(<<210>>), Lit(BeBytes4(n))>>
      [] InR(n, I64Min, NumAdd(I32Min, -1)) ->
            <<Lit(<<211>>), Lit(BeBytes8(n))>>
      [] InR(n, FromInt(0), FromInt(127)) -> <<Lit(<<AsU8(n)>>)>>
      [] InR(n, FromInt(128), FromInt(255)) -> <<Lit(<<204, AsU8(n)>>)>>
      [] InR(n, FromInt(256), FromInt(65535)) ->
            <<Lit(<<205>>), Lit(BeBytes2(n))>>
      [] InR(n, FromInt(65536), U32Max) ->
            <<Lit(<<206>>), Lit(BeBytes4(n))>>
      [] InR(n, NumAdd(U32Max, 1), I64Max) ->
            <<Lit(<<207>>), Lit(BeBytes8(n))>>

\* write_map_len with the map16 arm one too wide (16..=65536).
write_map_len_wide_map16(len) ==
    IF InR(len, FromInt(0), FromInt(15))
        THEN <<Lit(<<BitOr(128, AsU8(len))>>)>>
    ELSE IF InR(len, FromInt(16), FromInt(65536))
        THEN <<Lit(<<222>>), Lit(BeBytes2(len))>>
    ELSE <<Lit(<<223>>), Lit(BeBytes4(len))>>

write_map_len(len) ==
    IF InR(len, FromInt(0), FromInt(15))
        THEN <<Lit(<<BitOr(128, AsU8(len))>>)>>
    ELSE IF InR(len, FromInt(16), FromInt(65535))
        THEN <<Lit(<<222>>), Lit(BeBytes2(len))>>
    ELSE <<Lit(<<223>>), Lit(BeBytes4(len))>>

\* ------------------------------------------------------------------ values
\* A value with its shape, as Peek presents it: the shape's Def, the type the
\* shape identifies (is_type), the value (get) and, for a struct, its fields.

MkInt(ty, n) ==
    [def |-> "Scalar", ty |-> ty, num |-> n, str |-> Lit(<<>>), fields |-> <<>>]

MkStr(s) ==
    [def |-> "Scalar", ty |-> "String", num |-> Zero, str |-> s, fields |-> <<>>]

\* A scalar of no type the serializer asks for: Opaque<T>, bool, f64, ...
MkScalar(ty) ==
    [def |-> "Scalar", ty |-> ty, num |-> Zero, str |-> Lit(<<>>), fields |-> <<>>]

MkStruct(fs) ==
    [def |-> "Struct", ty |-> "struct", num |-> Zero, str |-> Lit(<<>>),
     fields |-> fs]

\* A value of another Def: Enum, List, Map, Option, ...
MkOther(def) ==
    [def |-> def, ty |-> def, num |-> Zero, str |-> Lit(<<>>), fields |-> <<>>]

\* A field of a struct's shape, as ::facet::Field::builder() is given it: the
\* name, the value (for its shape), the flags and the attributes.
FieldWith(name, v, flags, attributes) ==
    [name |-> name, value |-> v, flags |-> flags, attributes |-> attributes]

\* A field with no flag and no attribute.
Field(name, v) == FieldWith(name, v, "EMPTY", <<>>)

\* sd.fields: the fields the struct's shape declares.
DeclaredFields(v) == v.fields

\* ps.fields(): the (field, child peek) pairs, in the order of the shape.
PeekFields(v) == v.fields

\* ------------------------------------------------------------------- sink

\* The bytes of buf followed by those of chunk (runs of explicit bytes merged).
SegCat(buf, chunk) ==
    IF chunk.bytes = <<>> /\ chunk.pad = Zero THEN buf
    ELSE IF buf # <<>> /\ buf[Len(buf)].pad = Zero
        THEN [buf EXCEPT ![Len(buf)] =
                [bytes |-> @.bytes \o chunk.bytes, pad |-> chunk.pad]]
    ELSE Append(buf, chunk)

\* The bytes of buf followed by those of the buffer more.
Join(buf, more) ==
    IF more = <<>> THEN buf ELSE SegCat(buf, more[1]) \o Tail(more)

\* The bytes of the chunks, one after the other (by halves).
RECURSIVE Concat(_)
Concat(chunks) ==
    LET n == Len(chunks)
    IN  IF n = 0 THEN <<>>
        ELSE IF n = 1 THEN SegCat(<<>>, chunks[1])
        ELSE Join(Concat(SubSeq(chunks, 1, n \div 2)),
                  Concat(SubSeq(chunks, (n \div 2) + 1, n)))

\* The errors a sink may answer a write_all with.
SinkErrors ==
    { [tag |-> "err", kind |-> "BrokenPipe", msg |-> "sink"],
      [tag |-> "err", kind |-> "WriteZero", msg |-> "sink"] }

Running == [tag |-> "running", kind |-> "", msg |-> ""]
Ok == [tag |-> "ok", kind |-> "", msg |-> ""]

\* io::Error::new(io::ErrorKind::Other, format!("Unsupported scalar type: .."))
UnsupportedScalar ==
    [tag |-> "err", kind |-> "Other", msg |-> "Unsupported scalar type"]

\* io::Error::new(io::ErrorKind::Other, format!("Unsupported type: .."))
UnsupportedType == [tag |-> "err", kind |-> "Other", msg |-> "Unsupported type"]

\* --------------------------------------------------------------- serialize

WriteItem(c) == [op |-> "write", chunk |-> c]
SerItem(v) == [op |-> "ser", v |-> v]

Writes(chunks) == [i \in 1..Len(chunks) |-> WriteItem(chunks[i])]

\* The scalar types serialize asks the shape for, with is_type.
ScalarTypes == {"String"} \cup IntTypes

\* The Scalar arm: the writer the chain of is_type tests picks.
ScalarWrites(v) ==
    CASE v.ty = "String" -> write_str(v.str)
      [] v.ty = "u64" -> write_u64(v.num)
      [] v.ty = "u32" -> write_u32(v.num)
      [] v.ty = "u16" -> write_u16(v.num)
      [] v.ty = "u8" -> write_u8(v.num)
      [] v.ty = "i64" -> write_i64(v.num)
      [] v.ty = "i32" -> write_i32(v.num)
      [] v.ty = "i16" -> write_i16(v.num)
      [] v.ty = "i8" -> write_i8(v.num)

\* The Struct arm's loop with the value written before the field's name.
RECURSIVE FieldItems_value_first(_)
FieldItems_value_first(fs) ==
    IF fs = <<>> THEN <<>>
    ELSE <<SerItem(fs[1].value)>> \o Writes(write_str(fs[1].name))
         \o FieldItems_value_first(Tail(fs))

\* The Struct arm's loop leaving out the fields marked SkipSerializing.
RECURSIVE FieldItems_skip_marked(_)
FieldItems_skip_marked(fs) ==
    IF fs = <<>> THEN <<>>
    ELSE IF \E i \in 1..Len(fs[1].attributes) :
                fs[1].attributes[i].attr = "SkipSerializing"
        THEN FieldItems_skip_marked(Tail(fs))
    ELSE Writes(write_str(fs[1].name)) \o <<SerItem(fs[1].value)>>
         \o FieldItems_skip_marked(Tail(fs))

\* The Struct arm's loop: per field, write_str(field.name) then serialize(peek).
RECURSIVE FieldItems(_)
FieldItems(fs) ==
    IF fs = <<>> THEN <<>>
    ELSE Writes(write_str(fs[1].name)) \o <<SerItem(fs[1].value)>>
         \o FieldItems(Tail(fs))

\* The Struct arm: the map header, then the fields.
StructItems(v) ==
    Writes(write_map_len(FromInt(Len(DeclaredFields(v)))))
    \o FieldItems(PeekFields(v))

\* serialize falling back to nil (0xc0) for what it has no encoding for.
serialize_nil_fallback(v) ==
    IF v.def = "Scalar" /\ v.ty \in ScalarTypes
        THEN [err |-> Ok, items |-> Writes(ScalarWrites(v))]
    ELSE IF v.def = "Struct" THEN [err |-> Ok, items |-> StructItems(v)]
    ELSE [err |-> Ok, items |-> Writes(<<Lit(<<192>>)>>)]

\* What one call of serialize(pv, writer) does before its first write: the
\* error it returns at once, or the work it goes on to do.
serialize(v) ==
    IF v.def = "Scalar" THEN
        IF v.ty \in ScalarTypes
            THEN [err |-> Ok, items |-> Writes(ScalarWrites(v))]
        ELSE [err |-> UnsupportedScalar, items |-> <<>>]
    ELSE IF v.def = "Struct" THEN [err |-> Ok, items |-> StructItems(v)]
    ELSE [err |-> UnsupportedType, items |-> <<>>]

\* ------------------------------------------------------------------ inputs

\* The first value of every range the writers tell apart, and the types' ends.
IntEdges ==
    { FromInt(-32), FromInt(-128), FromInt(-32768), I32Min, I64Min,
      Zero, FromInt(128), FromInt(256), FromInt(32768), FromInt(65536),
      <<0, 0, 32768, 0>>, <<0, 1, 0, 0>>, <<32768, 0, 0, 0>>,
      NumAdd(U64Max, 1) }

Near(edges) == { NumAdd(e, d) : e \in edges, d \in (0 - Spread)..Spread }

IntSamples(ty) == { n \in Near(IntEdges) : InType(n, ty) }

\* Lengths (usize, 64 bits): around the edges of write_str and write_map_len.
LenEdges ==
    { Zero, FromInt(16), FromInt(32), FromInt(256), FromInt(65536),
      <<0, 1, 0, 0>>, NumAdd(U64Max, 1) }

LenSamples == { n \in Near(LenEdges) : InR(n, Zero, U64Max) }

\* "name", "Ada", "age", "id", "inner", "x", "secret" in UTF-8.
SName == Lit(<<110, 97, 109, 101>>)
SAda == Lit(<<65, 100, 97>>)
SAge == Lit(<<97, 103, 101>>)
SId == Lit(<<105, 100>>)
SInner == Lit(<<105, 110, 110, 101, 114>>)
SX == Lit(<<120>>)
SSecret == Lit(<<115, 101, 99, 114, 101, 116>>)

StrSamples ==
    {Lit(<<>>), SAda, SName}
    \cup { Padding(n) : n \in LenSamples }
    \cup { [bytes |-> SAda.bytes, pad |-> NumAdd(n, -3)] :
             n \in { m \in LenSamples : NumLE(FromInt(3), m) } }

\* Scalars and kinds the serializer has no encoding for.
OpaqueValue == MkScalar("Opaque")
Unsupported ==
    {OpaqueValue, MkScalar("bool"), MkScalar("f64"),
     MkOther("Enum"), MkOther("List"), MkOther("Map"), MkOther("Option")}

\* The fields the sampled structs are made of.
FieldPool ==
    << Field(SName, MkStr(SAda)),
       Field(SAge, MkInt("u8", FromInt(36))),
       Field(SId, MkInt("i64", NumAdd(I32Min, -1))),
       Field(SInner, MkStruct(<<Field(SX, MkInt("i16", FromInt(-129))),
                                Field(SName, MkStr(Padding(FromInt(32))))>>)),
       Field(SSecret, OpaqueValue),
       Field(SInner, MkStruct(<<Field(SX, MkOther("List"))>>)),
       \* #[facet(sensitive, skip_serializing)] secret: String
       FieldWith(SSecret, MkStr(SAda), "SENSITIVE",
                 << [attr |-> "Sensitive", arg |-> <<>>],
                    [attr |-> "SkipSerializing", arg |-> <<>>] >>),
       \* #[facet(default, skip_serializing_if = f)] age: u8
       FieldWith(SAge, MkInt("u8", FromInt(0)), "EMPTY",
                 << [attr |-> "Default", arg |-> <<>>],
                    [attr |-> "SkipSerializingIf", arg |-> <<"f">>] >>),
       \* inner: a struct whose own field is #[facet(skip_serializing)]
       Field(SInner,
             MkStruct(<<FieldWith(SX, MkInt("i16", FromInt(-129)), "EMPTY",
                                   << [attr |-> "SkipSerializing",
                                       arg |-> <<>>] >>),
                        Field(SId, MkInt("u32", FromInt(7)))>>)) >>

\* The sequences of at most n distinct fields of the pool.
RECURSIVE FieldSeqs(_)
FieldSeqs(n) ==
    IF n = 0 THEN {<<>>}
    ELSE LET shorter == FieldSeqs(n - 1)
         IN  shorter \cup
             { Append(fs, FieldPool[i]) :
                 fs \in { s \in shorter : Len(s) = n - 1 },
                 i \in 1..Len(FieldPool) }

DistinctNames(fs) ==
    \A i, j \in 1..Len(fs) : i # j => fs[i].name # fs[j].name

\* A struct of 16 u8 fields "fA", "fB", ...: the first count past a fixmap.
WideStruct ==
    MkStruct([i \in 1..16 |->
                Field(Lit(<<102, 64 + i>>), MkInt("u8", FromInt(120 + i)))])

StructSamples ==
    { MkStruct(fs) : fs \in { s \in FieldSeqs(MaxFields) : DistinctNames(s) } }
    \cup {WideStruct}

ScalarSamples ==
    UNION { { MkInt(ty, n) : n \in IntSamples(ty) } : ty \in IntTypes }
    \cup { MkStr(s) : s \in StrSamples }

\* The values serialize is called on.
ValueSamples == ScalarSamples \cup StructSamples \cup Unsupported

\* The calls: the entry points, and each writer on its own.
WriterFns ==
    {"write_u8", "write_u16", "write_u32", "write_u64",
     "write_i8", "write_i16", "write_i32", "write_i64"}

WriterType(fn) ==
    CASE fn = "write_u8" -> "u8" [] fn = "write_u16" -> "u16"
      [] fn = "write_u32" -> "u32" [] fn = "write_u64" -> "u64"
      [] fn = "write_i8" -> "i8" [] fn = "write_i16" -> "i16"
      [] fn = "write_i32" -> "i32" [] fn = "write_i64" -> "i64"

Calls ==
    { [fn |-> "serialize", val |-> v] : v \in ValueSamples }
    \cup { [fn |-> "to_vec", val |-> v] : v \in ValueSamples }
    \cup UNION { { [fn |-> fn, val |-> MkInt(WriterType(fn), n)] :
                     n \in IntSamples(WriterType(fn)) } : fn \in WriterFns }
    \cup { [fn |-> "write_str", val |-> MkStr(s)] : s \in StrSamples }
    \cup { [fn |-> "write_map_len", val |-> MkInt("usize", n)] :
             n \in LenSamples }

\* ---------------------------------------------------------- naming engine
\* facet-derive-emit: an identifier is a sequence of one-character strings.

LowerLetters ==
    <<"a", "b", "c", "d", "e", "f", "g", "h", "i", "j", "k", "l", "m",
      "n", "o", "p", "q", "r", "s", "t", "u", "v", "w", "x", "y", "z">>

UpperLetters ==
    <<"A", "B", "C", "D", "E", "F", "G", "H", "I", "J", "K", "L", "M",
      "N", "O", "P", "Q", "R", "S", "T", "U", "V", "W", "X", "Y", "Z">>

LetterIndex(letters, c) == CHOOSE i \in 1..Len(letters) : letters[i] = c

\* char::is_uppercase, char::is_lowercase, char::is_whitespace
is_uppercase(c) == \E i \in 1..Len(UpperLetters) : UpperLetters[i] = c
is_lowercase(c) == \E i \in 1..Len(LowerLetters) : LowerLetters[i] = c
is_whitespace(c) == c = " "

\* char::to_uppercase, char::to_lowercase
char_to_uppercase(c) ==
    IF is_lowercase(c) THEN UpperLetters[LetterIndex(LowerLetters, c)] ELSE c
char_to_lowercase(c) ==
    IF is_uppercase(c) THEN LowerLetters[LetterIndex(UpperLetters, c)] ELSE c

\* str::to_lowercase, str::to_uppercase
to_lowercase(input) == [i \in 1..Len(input) |-> char_to_lowercase(input[i])]
to_uppercase(input) == [i \in 1..Len(input) |-> char_to_uppercase(input[i])]

\* input.chars().skip_while(|&x| x != c).nth(1).is_some_and(is_lowercase):
\* the character after the FIRST c of the input.
next_char_is_lowercase(input, c) ==
    LET first == CHOOSE i \in 1..Len(input) :
                    input[i] = c /\ \A j \in 1..(i - 1) : input[j] # c
    IN  first + 1 <= Len(input) /\ is_lowercase(input[first + 1])

\* The loop's variables before any character.
SplitStart ==
    [words |-> <<>>, current_word |-> <<>>,
     prev_is_lowercase |-> FALSE, prev_is_uppercase |-> FALSE]

\* The loop's turn without the acronym boundary (upper, upper, lower).
SplitChar_no_acronym(input, st, c) ==
    IF c = "_" \/ c = "-" \/ is_whitespace(c) THEN
        [words |-> IF st.current_word # <<>>
                     THEN Append(st.words, st.current_word) ELSE st.words,
         current_word |-> <<>>,
         prev_is_lowercase |-> FALSE, prev_is_uppercase |-> FALSE]
    ELSE IF is_uppercase(c) THEN
        LET split == st.current_word # <<>> /\ st.prev_is_lowercase
        IN  [words |-> IF split THEN Append(st.words, st.current_word)
                       ELSE st.words,
             current_word |-> IF split THEN <<c>> ELSE Append(st.current_word, c),
             prev_is_lowercase |-> FALSE, prev_is_uppercase |-> TRUE]
    ELSE
        [words |-> st.words,
         current_word |-> Append(st.current_word, c),
         prev_is_lowercase |-> TRUE, prev_is_uppercase |-> FALSE]

\* The loop's turn without the lower-to-upper boundary.
SplitChar_no_lower_upper(input, st, c) ==
    IF c = "_" \/ c = "-" \/ is_whitespace(c) THEN
        [words |-> IF st.current_word # <<>>
                     THEN Append(st.words, st.current_word) ELSE st.words,
         current_word |-> <<>>,
         prev_is_lowercase |-> FALSE, prev_is_uppercase |-> FALSE]
    ELSE IF is_uppercase(c) THEN
        LET split == /\ st.current_word # <<>>
                     /\ st.prev_is_uppercase /\ next_char_is_lowercase(input, c)
        IN  [words |-> IF split THEN Append(st.words, st.current_word)
                       ELSE st.words,
             current_word |-> IF split THEN <<c>> ELSE Append(st.current_word, c),
             prev_is_lowercase |-> FALSE, prev_is_uppercase |-> TRUE]
    ELSE
        [words |-> st.words,
         current_word |-> Append(st.current_word, c),
         prev_is_lowercase |-> TRUE, prev_is_uppercase |-> FALSE]

\* One turn of the loop `for c in input.chars()`.
SplitChar(input, st, c) ==
    IF c = "_" \/ c = "-" \/ is_whitespace(c) THEN
        [words |-> IF st.current_word # <<>>
                     THEN Append(st.words, st.current_word) ELSE st.words,
         current_word |-> <<>>,
         prev_is_lowercase |-> FALSE, prev_is_uppercase |-> FALSE]
    ELSE IF is_uppercase(c) THEN
        LET split == /\ st.current_word # <<>>
                     /\ \/ st.prev_is_lowercase
                        \/ st.prev_is_uppercase /\ next_char_is_lowercase(input, c)
        IN  [words |-> IF split THEN Append(st.words, st.current_word)
                       ELSE st.words,
             current_word |-> IF split THEN <<c>> ELSE Append(st.current_word, c),
             prev_is_lowercase |-> FALSE, prev_is_uppercase |-> TRUE]
    ELSE
        [words |-> st.words,
         current_word |-> Append(st.current_word, c),
         prev_is_lowercase |-> TRUE, prev_is_uppercase |-> FALSE]

RECURSIVE SplitLoop(_, _)
SplitLoop(input, i) ==
    IF i = 0 THEN SplitStart
    ELSE SplitChar(input, SplitLoop(input, i - 1), input[i])

split_into_words(input) ==
    IF input = <<>> THEN <<>>
    ELSE LET st == SplitLoop(input, Len(input))
             words == IF st.current_word # <<>>
                        THEN Append(st.words, st.current_word) ELSE st.words
         IN  SelectSeq(words, LAMBDA w : w # <<>>)

\* words.join(sep)
RECURSIVE Joined(_, _)
Joined(words, sep) ==
    IF words = <<>> THEN <<>>
    ELSE IF Len(words) = 1 THEN words[1]
    ELSE words[1] \o sep \o Joined(Tail(words), sep)

\* The closure of to_pascal_case: first character up, the rest down.
Capitalized(word) ==
    IF word = <<>> THEN <<>>
    ELSE <<char_to_uppercase(word[1])>> \o to_lowercase(Tail(word))

to_pascal_case(input) ==
    LET words == split_into_words(input)
    IN  Joined([i \in 1..Len(words) |-> Capitalized(words[i])], <<>>)

to_camel_case(input) ==
    LET pascal == to_pascal_case(input)
    IN  IF pascal = <<>> THEN <<>>
        ELSE <<char_to_lowercase(pascal[1])>> \o Tail(pascal)

to_snake_case(input) ==
    LET words == split_into_words(input)
    IN  Joined([i \in 1..Len(words) |-> to_lowercase(words[i])], <<"_">>)

to_screaming_snake_case(input) ==
    LET words == split_into_words(input)
    IN  Joined([i \in 1..Len(words) |-> to_uppercase(words[i])], <<"_">>)

to_kebab_case(input) ==
    LET words == split_into_words(input)
    IN  Joined([i \in 1..Len(words) |-> to_lowercase(words[i])], <<"-">>)

to_screaming_kebab_case(input) ==
    LET words == split_into_words(input)
    IN  Joined([i \in 1..Len(words) |-> to_uppercase(words[i])], <<"-">>)

RenameRules ==
    {"Lowercase", "Uppercase", "PascalCase", "CamelCase", "SnakeCase",
     "ScreamingSnakeCase", "KebabCase", "ScreamingKebabCase", "Passthrough"}

\* apply with Lowercase and Uppercase folding word by word, like the others.
apply_fold_by_words(rule, input) ==
    LET words == split_into_words(input)
    IN  CASE rule = "Lowercase" ->
                Joined([i \in 1..Len(words) |-> to_lowercase(words[i])], <<>>)
          [] rule = "Uppercase" ->
                Joined([i \in 1..Len(words) |-> to_uppercase(words[i])], <<>>)
          [] rule = "PascalCase" -> to_pascal_case(input)
          [] rule = "CamelCase" -> to_camel_case(input)
          [] rule = "SnakeCase" -> to_snake_case(input)
          [] rule = "ScreamingSnakeCase" -> to_screaming_snake_case(input)
          [] rule = "KebabCase" -> to_kebab_case(input)
          [] rule = "ScreamingKebabCase" -> to_screaming_kebab_case(input)
          [] rule = "Passthrough" -> input

\* RenameRule::apply
apply(rule, input) ==
    CASE rule = "Lowercase" -> to_lowercase(input)
      [] rule = "Uppercase" -> to_uppercase(input)
      [] rule = "PascalCase" -> to_pascal_case(input)
      [] rule = "CamelCase" -> to_camel_case(input)
      [] rule = "SnakeCase" -> to_snake_case(input)
      [] rule = "ScreamingSnakeCase" -> to_screaming_snake_case(input)
      [] rule = "KebabCase" -> to_kebab_case(input)
      [] rule = "ScreamingKebabCase" -> to_screaming_kebab_case(input)
      [] rule = "Passthrough" -> input

\* The characters the sampled identifiers are made of.
IdentChars == {"a", "b", "A", "B", "1", "_", "-", " "}

RECURSIVE IdentsOfLen(_)
IdentsOfLen(n) ==
    IF n = 0 THEN {<<>>}
    ELSE { Append(s, c) : s \in IdentsOfLen(n - 1), c \in IdentChars }

HTTPRequest == <<"H", "T", "T", "P", "R", "e", "q", "u", "e", "s", "t">>
FooBar == <<"f", "o", "o", "B", "a", "r">>

IdentSamples ==
    UNION { IdentsOfLen(n) : n \in 0..MaxIdentLen }
    \cup { HTTPRequest, FooBar, <<"a", "_", "b", "_", "c">>,
           <<"f", "o", "o", "_", "b", "a", "r">>,
           <<"F", "O", "O", "-", "B", "A", "R">>,
           <<"a", "1", "_", "b", "2", "_", "1", "2">>,
           <<"A", "B", " ", "A", "B", " ", "B", "A">>,
           <<"a", "b", "-", "a", "b", "-", "b", "a">>,
           <<"A", "b", "C", "A", "D">> }

\* ------------------------------------------------------------ derive macro
\* facet-derive-emit: the attributes of a container and of a field, and the
\* name gen_struct_field writes into the field's metadata.  A string is a
\* sequence of one-character strings, as in the naming engine.

\* str::find(c): the place of the first c, 0 for None.
find(s, c) ==
    IF \E i \in 1..Len(s) : s[i] = c
        THEN CHOOSE i \in 1..Len(s) : s[i] = c /\ \A j \in 1..(i - 1) : s[j] # c
    ELSE 0

\* The part of s between the first and the last of the places kept.
Between(s, kept) ==
    IF kept = {} THEN <<>>
    ELSE SubSeq(s, CHOOSE i \in kept : \A j \in kept : i <= j,
                   CHOOSE i \in kept : \A j \in kept : j <= i)

\* str::trim
trim(s) == Between(s, { i \in 1..Len(s) : ~is_whitespace(s[i]) })

\* str::trim_matches(c)
trim_matches(s, c) == Between(s, { i \in 1..Len(s) : s[i] # c })

\* str::split(c), collected: the parts of s between the c's.
split(s, c) ==
    LET at == { i \in 1..Len(s) : s[i] = c }
        \* The place of the k-th c; 0 before the first, Len(s) + 1 after the last.
        cut(k) == IF k = 0 THEN 0
                  ELSE IF k > Cardinality(at) THEN Len(s) + 1
                  ELSE CHOOSE p \in at : Cardinality({ q \in at : q <= p }) = k
    IN  [k \in 1..(Cardinality(at) + 1) |-> SubSeq(s, cut(k - 1) + 1, cut(k) - 1)]

\* char::is_ascii_digit
is_ascii_digit(c) == c \in {"0", "1", "2", "3", "4", "5", "6", "7", "8", "9"}

\* normalize_ident_str: the identifier without its r# prefix.
normalize_ident_str(ident_str) ==
    IF Len(ident_str) >= 2 /\ SubSeq(ident_str, 1, 2) = <<"r", "#">>
        THEN SubSeq(ident_str, 3, Len(ident_str))
    ELSE ident_str

\* Option<RenameRule>::None
NoRule == "None"

\* RenameRule::from_str
from_str(r) ==
    CASE r = <<"l", "o", "w", "e", "r", "c", "a", "s", "e">> -> "Lowercase"
      [] r = <<"U", "P", "P", "E", "R", "C", "A", "S", "E">> -> "Uppercase"
      [] r = <<"P", "a", "s", "c", "a", "l", "C", "a", "s", "e">> -> "PascalCase"
      [] r = <<"c", "a", "m", "e", "l", "C", "a", "s", "e">> -> "CamelCase"
      [] r = <<"s", "n", "a", "k", "e", "_", "c", "a", "s", "e">> -> "SnakeCase"
      [] r = <<"S", "C", "R", "E", "A", "M", "I", "N", "G", "_", "S", "N", "A", "K", "E", "_", "C", "A", "S", "E">> -> "ScreamingSnakeCase"
      [] r = <<"k", "e", "b", "a", "b", "-", "c", "a", "s", "e">> -> "KebabCase"
      [] r = <<"S", "C", "R", "E", "A", "M", "I", "N", "G", "-", "K", "E", "B", "A", "B", "-", "C", "A", "S", "E">> -> "ScreamingKebabCase"
      [] OTHER -> NoRule

\* An attribute: the variant of AttributeInner / FacetInner it parsed to, and
\* the text it carries (a literal with its quotes, or the tokens of Other).
Attr(kind, text) == [kind |-> kind, text |-> text]

\* An entry of items / attribute_list: the ShapeAttribute or FieldAttribute
\* the generated code names, and its argument.
Item(attr, arg) == [attr |-> attr, arg |-> arg]

\* One turn of build_container_attributes' loop over the attributes.
ContainerAttr(st, a) ==
    CASE a.kind = "DenyUnknownFields" ->
            [st EXCEPT !.items = Append(@, Item("DenyUnknownFields", <<>>))]
      [] a.kind \in {"DefaultEquals", "Default"} ->
            [st EXCEPT !.items = Append(@, Item("Default", <<>>))]
      [] a.kind = "Transparent" ->
            [st EXCEPT !.items = Append(@, Item("Transparent", <<>>))]
      [] a.kind = "RenameAll" ->
            LET rule_str == trim_matches(a.text, "\"")
            IN  IF from_str(rule_str) # NoRule
                    THEN [items |-> Append(st.items, Item("RenameAll", rule_str)),
                          rename_all_rule |-> from_str(rule_str)]
                ELSE st
      [] a.kind = "Other" ->
            LET equal_pos == find(a.text, "=")
                key == trim(SubSeq(a.text, 1, equal_pos - 1))
                value == trim_matches(
                            trim(SubSeq(a.text, equal_pos + 1, Len(a.text))), "\"")
            IN  IF equal_pos # 0 /\ key = <<"r", "e", "n", "a", "m", "e", "_", "a", "l", "l">> THEN
                    IF from_str(value) # NoRule
                        THEN [items |-> Append(st.items, Item("RenameAll", value)),
                              rename_all_rule |-> from_str(value)]
                    ELSE st
                ELSE [st EXCEPT !.items = Append(@, Item("Arbitrary", a.text))]
      [] OTHER -> st

RECURSIVE ContainerLoop(_, _)
ContainerLoop(attributes, i) ==
    IF i = 0 THEN [items |-> <<>>, rename_all_rule |-> NoRule]
    ELSE ContainerAttr(ContainerLoop(attributes, i - 1), attributes[i])

\* build_container_attributes: the ContainerAttributes of the attributes.
build_container_attributes(attributes) ==
    LET st == ContainerLoop(attributes, Len(attributes))
    IN  [code |-> st.items,
         rename_rule |-> IF st.rename_all_rule = NoRule THEN "Passthrough"
                         ELSE st.rename_all_rule]

\* FieldOtherAttr taking every `key = value` for a rename, whatever the key.
FieldOtherAttr_any_key(st, attr) ==
    LET equal_pos == find(attr, "=")
        rest == trim(SubSeq(attr, equal_pos + 1, Len(attr)))
    IN  IF equal_pos # 0 THEN
            LET value == trim_matches(rest, "\"")
            IN  [st EXCEPT !.has_explicit_rename = TRUE,
                           !.name_for_metadata = value,
                           !.attribute_list = Append(@, Item("Rename", value))]
        ELSE IF attr = <<"s", "k", "i", "p", "_", "s", "e", "r", "i", "a", "l", "i", "z", "i", "n", "g">> THEN
            [st EXCEPT !.attribute_list = Append(@, Item("SkipSerializing", <<>>))]
        ELSE IF attr = <<"s", "e", "n", "s", "i", "t", "i", "v", "e">> THEN
            [st EXCEPT !.flags = "SENSITIVE",
                       !.attribute_list = Append(@, Item("Sensitive", <<>>))]
        ELSE [st EXCEPT !.attribute_list = Append(@, Item("Arbitrary", attr))]

\* One attribute of the comma-separated list inside #[facet(...)] (Other).
FieldOtherAttr(st, attr) ==
    LET equal_pos == find(attr, "=")
        key == trim(SubSeq(attr, 1, equal_pos - 1))
        rest == trim(SubSeq(attr, equal_pos + 1, Len(attr)))
    IN  IF equal_pos # 0 THEN
            IF key = <<"r", "e", "n", "a", "m", "e">> THEN
                LET value == trim_matches(rest, "\"")
                IN  [st EXCEPT !.has_explicit_rename = TRUE,
                               !.name_for_metadata = value,
                               !.attribute_list = Append(@, Item("Rename", value))]
            ELSE IF key = <<"s", "k", "i", "p", "_", "s", "e", "r", "i", "a", "l", "i", "z", "i", "n", "g", "_", "i", "f">> THEN
                [st EXCEPT !.attribute_list =
                               Append(@, Item("SkipSerializingIf", rest))]
            ELSE [st EXCEPT !.attribute_list = Append(@, Item("Arbitrary", attr))]
        ELSE IF attr = <<"s", "k", "i", "p", "_", "s", "e", "r", "i", "a", "l", "i", "z", "i", "n", "g">> THEN
            [st EXCEPT !.attribute_list = Append(@, Item("SkipSerializing", <<>>))]
        ELSE IF attr = <<"s", "e", "n", "s", "i", "t", "i", "v", "e">> THEN
            [st EXCEPT !.flags = "SENSITIVE",
                       !.attribute_list = Append(@, Item("Sensitive", <<>>))]
        ELSE [st EXCEPT !.attribute_list = Append(@, Item("Arbitrary", attr))]

\* The loop over attr_str.split(',').map(|s| s.trim()).
RECURSIVE FieldOtherLoop(_, _, _)
FieldOtherLoop(st, attrs, i) ==
    IF i = 0 THEN st
    ELSE FieldOtherAttr(FieldOtherLoop(st, attrs, i - 1), trim(attrs[i]))

\* One turn of gen_struct_field's loop over fi.attrs (a panic ends the call).
FieldAttr(st, a) ==
    IF st.panicked THEN st
    ELSE CASE a.kind = "Sensitive" ->
                [st EXCEPT !.flags = "SENSITIVE",
                           !.attribute_list = Append(@, Item("Sensitive", <<>>))]
           [] a.kind = "Default" ->
                [st EXCEPT !.attribute_list = Append(@, Item("Default", <<>>))]
           [] a.kind = "DefaultEquals" ->
                [st EXCEPT !.attribute_list =
                               Append(@, Item("Default", trim_matches(a.text, "\"")))]
           [] a.kind = "Invariants" -> [st EXCEPT !.panicked = TRUE]
           [] a.kind = "Opaque" -> [st EXCEPT !.shape_of = "shape_of_opaque"]
           [] a.kind = "Other" ->
                LET attrs == split(a.text, ",")
                IN  FieldOtherLoop(st, attrs, Len(attrs))
           [] a.kind = "Doc" -> [st EXCEPT !.doc_lines = Append(@, a.text)]
           \* Transparent, DenyUnknownFields, RenameAll, Repr, Any
           [] OTHER -> st

RECURSIVE FieldLoop(_, _)
FieldLoop(fi, i) ==
    IF i = 0
        THEN [flags |-> "EMPTY", attribute_list |-> <<>>, doc_lines |-> <<>>,
              shape_of |-> "shape_of",
              name_for_metadata |-> fi.normalized_field_name,
              has_explicit_rename |-> FALSE, panicked |-> FALSE]
    ELSE FieldAttr(FieldLoop(fi, i - 1), fi.attrs[i])

\* gen_struct_field: what the Field::builder() it generates is given.
gen_struct_field(fi) ==
    LET st == FieldLoop(fi, Len(fi.attrs))
        by_rule ==
            /\ ~st.has_explicit_rename /\ fi.rename_rule # "Passthrough"
            /\ ~(\A i \in 1..Len(fi.normalized_field_name) :
                    is_ascii_digit(fi.normalized_field_name[i]))
        renamed_ == apply(fi.rename_rule, fi.normalized_field_name)
    IN  [panicked |-> st.panicked,
         name |-> IF by_rule THEN renamed_ ELSE st.name_for_metadata,
         shape_of |-> st.shape_of,
         raw_field_name |-> fi.raw_field_name,
         flags |-> st.flags,
         attributes |-> IF by_rule
                          THEN Append(st.attribute_list, Item("Rename", renamed_))
                        ELSE st.attribute_list,
         doc |-> st.doc_lines]

\* The FieldInfo the struct's processing hands to gen_struct_field for a field
\* of a container: the name without r#, and the container's rename rule.
FieldInfoOf(raw_field_name, attrs, container) ==
    [raw_field_name |-> raw_field_name,
     normalized_field_name |-> normalize_ident_str(raw_field_name),
     attrs |-> attrs,
     rename_rule |-> container.rename_rule]

\* The attributes a sampled container carries, one at a time.
ContainerAttrPool ==
    << Attr("RenameAll", <<"\"", "l", "o", "w", "e", "r", "c", "a", "s", "e", "\"">>),
       Attr("RenameAll", <<"\"", "U", "P", "P", "E", "R", "C", "A", "S", "E", "\"">>),
       Attr("RenameAll", <<"\"", "P", "a", "s", "c", "a", "l", "C", "a", "s", "e", "\"">>),
       Attr("RenameAll", <<"\"", "c", "a", "m", "e", "l", "C", "a", "s", "e", "\"">>),
       Attr("RenameAll", <<"\"", "s", "n", "a", "k", "e", "_", "c", "a", "s", "e", "\"">>),
       Attr("RenameAll", <<"\"", "k", "e", "b", "a", "b", "-", "c", "a", "s", "e", "\"">>),
       Attr("RenameAll", <<"\"", "S", "C", "R", "E", "A", "M", "I", "N", "G", "-", "K", "E", "B", "A", "B", "-", "C", "A", "S", "E", "\"">>),
       Attr("RenameAll", <<"\"", "S", "n", "a", "k", "e", "_", "C", "a", "s", "e", "\"">>),
       Attr("Other", <<"r", "e", "n", "a", "m", "e", "_", "a", "l", "l", " ", "=", " ", "\"", "S", "C", "R", "E", "A", "M", "I", "N", "G", "_", "S", "N", "A", "K", "E", "_", "C", "A", "S", "E", "\"">>),
       Attr("Other", <<"r", "e", "n", "a", "m", "e", "_", "a", "l", "l", " ", "=", " ", "\"", "p", "a", "s", "c", "a", "l", "c", "a", "s", "e", "\"">>),
       Attr("DenyUnknownFields", <<>>) >>

\* The attributes a sampled field carries.
FieldAttrPool ==
    << Attr("Other", <<"r", "e", "n", "a", "m", "e", " ", "=", " ", "\"", "w", "i", "r", "e", "\"">>),
       Attr("Other", <<"r", "e", "n", "a", "m", "e", " ", "=", " ", "\"", "a", ",", "b", "\"">>),
       Attr("Other", <<"s", "e", "n", "s", "i", "t", "i", "v", "e", ",", " ", "r", "e", "n", "a", "m", "e", " ", "=", " ", "\"", "A", "b", "\"">>),
       Attr("Other", <<"s", "k", "i", "p", "_", "s", "e", "r", "i", "a", "l", "i", "z", "i", "n", "g">>),
       Attr("Other", <<"s", "k", "i", "p", "_", "s", "e", "r", "i", "a", "l", "i", "z", "i", "n", "g", "_", "i", "f", " ", "=", " ", "f">>),
       Attr("Default", <<>>),
       Attr("Invariants", <<>>) >>

\* The sequences of at most n entries of the pool.
RECURSIVE AttrSeqs(_, _)
AttrSeqs(pool, n) ==
    IF n = 0 THEN {<<>>}
    ELSE LET shorter == AttrSeqs(pool, n - 1)
         IN  shorter \cup
             { Append(as, pool[i]) :
                 as \in { s \in shorter : Len(s) = n - 1 }, i \in 1..Len(pool) }

\* The names of the sampled fields: named, raw (r#), and tuple indices.
FieldNames == { <<"f", "o", "o", "_", "b", "a", "r">>, <<"r", "#", "t", "y", "p", "e">>, <<"0">>, <<"1", "2">> }

\* ------------------------------------------------------ enum discriminants
\* facet-derive-emit: the value of the literal an enum variant is given.

\* The digits of the radixes up to 16, lowercase.
DigitChars ==
    <<"0", "1", "2", "3", "4", "5", "6", "7", "8", "9",
      "a", "b", "c", "d", "e", "f">>

\* char::to_digit(radix), -1 for None: letters count in either case.
to_digit(c, radix) ==
    LET at == { i \in 1..Len(DigitChars) : DigitChars[i] = char_to_lowercase(c) }
    IN  IF at = {} THEN -1
        ELSE IF (CHOOSE i \in at : TRUE) - 1 < radix
            THEN (CHOOSE i \in at : TRUE) - 1
        ELSE -1

\* n * radix + d, carried through the limbs (d may be negative).
MulAdd(n, radix, d) ==
    LET s0 == n[4] * radix + d
        s1 == n[3] * radix + (s0 \div Limb)
        s2 == n[2] * radix + (s1 \div Limb)
    IN  <<n[1] * radix + (s2 \div Limb), s2 % Limb, s1 % Limb, s0 % Limb>>

\* Err(ParseIntError)
ParseErr == [ok |-> FALSE, num |-> Zero]

\* The digits of from_str_radix, one by one: checked_mul by the radix, then
\* checked_add (checked_sub after a '-') of the digit.
RECURSIVE FromDigits(_, _, _, _, _)
FromDigits(digits, radix, sign, i, acc) ==
    IF i > Len(digits) THEN [ok |-> TRUE, num |-> acc]
    ELSE IF to_digit(digits[i], radix) < 0 THEN ParseErr
    ELSE IF ~InR(MulAdd(acc, radix, sign * to_digit(digits[i], radix)),
                 I64Min, I64Max) THEN ParseErr
    ELSE FromDigits(digits, radix, sign, i + 1,
                    MulAdd(acc, radix, sign * to_digit(digits[i], radix)))

\* i64::from_str_radix(src, radix), and str::parse::<i64>() with radix 10:
\* an optional sign, then at least one digit of the radix, within i64.
from_str_radix(src, radix) ==
    IF src = <<>> THEN ParseErr
    ELSE IF src[1] \in {"+", "-"}
        THEN IF Len(src) = 1 THEN ParseErr
             ELSE FromDigits(Tail(src), radix,
                             IF src[1] = "-" THEN -1 ELSE 1, 1, Zero)
    ELSE FromDigits(src, radix, 1, 1, Zero)

\* str::strip_prefix(prefix)
strip_prefix(s, prefix) ==
    IF Len(s) >= Len(prefix) /\ SubSeq(s, 1, Len(prefix)) = prefix
        THEN [some |-> TRUE, rest |-> SubSeq(s, Len(prefix) + 1, Len(s))]
    ELSE [some |-> FALSE, rest |-> <<>>]

\* a.or_else(|| b)
or_else(a, b) == IF a.some THEN a ELSE b

\* strip_underscores that leaves the string as it is.
strip_underscores_kept(s) == s

\* strip_underscores: the string without its '_' characters.
strip_underscores(s) == SelectSeq(s, LAMBDA c : c # "_")

\* Result::expect: the value, or a panic.
expect(r) == [panicked |-> ~r.ok, value |-> r.num]

\* get_discriminant_value_from_str
get_discriminant_value_from_str(s0) ==
    LET s == trim(s0)
        hex == or_else(strip_prefix(s, <<"0", "x">>), strip_prefix(s, <<"0", "X">>))
        bin == or_else(strip_prefix(s, <<"0", "b">>), strip_prefix(s, <<"0", "B">>))
        oct == or_else(strip_prefix(s, <<"0", "o">>), strip_prefix(s, <<"0", "O">>))
    IN  IF hex.some THEN expect(from_str_radix(strip_underscores(hex.rest), 16))
        ELSE IF bin.some
            THEN expect(from_str_radix(strip_underscores(bin.rest), 2))
        ELSE IF oct.some
            THEN expect(from_str_radix(strip_underscores(oct.rest), 8))
        ELSE expect(from_str_radix(strip_underscores(s), 10))

\* ---- the literals tried

\* The digits of n >= 0 in a radix, most significant first.
RECURSIVE Digits(_, _)
Digits(n, radix) ==
    IF n < radix THEN <<DigitChars[n + 1]>>
    ELSE Append(Digits(n \div radix, radix), DigitChars[(n % radix) + 1])

\* The digits with a '_' between groups of g digits, counted from the right
\* (g = 0: no separators).
RECURSIVE Grouped(_, _)
Grouped(ds, g) ==
    IF g = 0 \/ Len(ds) <= g THEN ds
    ELSE Grouped(SubSeq(ds, 1, Len(ds) - g), g) \o <<"_">>
            \o SubSeq(ds, Len(ds) - g + 1, Len(ds))

\* The prefix of a radix, with its letter in lower or in upper case.
RadixPrefix(radix, upper) ==
    CASE radix = 16 -> IF upper THEN <<"0", "X">> ELSE <<"0", "x">>
      [] radix = 2 -> IF upper THEN <<"0", "B">> ELSE <<"0", "b">>
      [] radix = 8 -> IF upper THEN <<"0", "O">> ELSE <<"0", "o">>
      [] radix = 10 -> <<>>

Spaces(k) == [i \in 1..k |-> " "]

\* n written as a literal: a value, a radix, the size of the digit groups, the
\* case of the prefix and of the digits, and the whitespace around it.
Written(n, radix, g, upperPrefix, upperDigits, pad) ==
    Spaces(pad) \o RadixPrefix(radix, upperPrefix)
        \o (IF upperDigits THEN to_uppercase(Grouped(Digits(n, radix), g))
            ELSE Grouped(Digits(n, radix), g))
        \o Spaces(pad)

DiscriminantValues == {0, 7, 42, 668, 48879, 123456, 2147483647}

\* A literal: its text, its numeric value, and whether it is of the plain form
\* (whitespace, prefix, digits of the radix and '_' separators, nothing else).
Literal(text, plain, num) == [text |-> text, plain |-> plain, num |-> num]

WrittenLiterals ==
    { Literal(Written(n, radix, g, up, ud, pad), TRUE, FromInt(n)) :
        n \in DiscriminantValues, radix \in {2, 8, 10, 16}, g \in 0..MaxGroup,
        up \in BOOLEAN, ud \in BOOLEAN, pad \in 0..MaxPad }

\* The literals of the crate's tests, with the values the tests expect.
TestLiterals ==
    { Literal(<<"7">>, TRUE, FromInt(7)),
      Literal(<<"1", "0">>, TRUE, FromInt(10)),
      Literal(<<"1", "2", "3", "_", "4", "5", "6">>, TRUE, FromInt(123456)),
      Literal(<<" ", "4", "2", " ">>, TRUE, FromInt(42)),
      Literal(<<"0", "x", "0", "1">>, TRUE, FromInt(1)),
      Literal(<<"0", "x", "7", "F">>, TRUE, FromInt(127)),
      Literal(<<"0", "x", "8", "0">>, TRUE, FromInt(128)),
      Literal(<<"0", "x", "f", "e", "e", "d">>, TRUE, FromInt(65261)),
      Literal(<<"0", "x", "B", "E", "E", "F">>, TRUE, FromInt(48879)),
      Literal(<<"0", "x", "B", "E", "_", "E", "F">>, TRUE, FromInt(48879)),
      Literal(<<"0", "X", "1", "A">>, TRUE, FromInt(26)),
      Literal(<<"0", "b", "0", "0", "0", "0", "_", "0", "0", "0", "0">>, TRUE, FromInt(0)),
      Literal(<<"0", "b", "0", "0", "0", "0", "_", "0", "1", "1", "1">>, TRUE, FromInt(7)),
      Literal(<<"0", "B", "1", "0", "1", "1">>, TRUE, FromInt(11)),
      Literal(<<"0", "o", "0", "7", "7">>, TRUE, FromInt(63)),
      Literal(<<"0", "o", "1", "2", "3">>, TRUE, FromInt(83)),
      Literal(<<"0", "o", "1", "_", "2", "3", "4">>, TRUE, FromInt(668)),
      Literal(<<"0", "O", "3", "4", "5">>, TRUE, FromInt(229)) }

\* Literals at and beyond the ends of i64, and texts from_str_radix rejects.
EdgeLiterals ==
    { Literal(<<"9", "2", "2", "3", "3", "7", "2", "0", "3", "6", "8", "5", "4", "7", "7", "5", "8", "0", "7">>, TRUE, I64Max),
      Literal(<<"0", "x", "7", "F", "F", "F", "_", "F", "F", "F", "F", "_", "F", "F", "F", "F", "_", "F", "F", "F", "F">>, TRUE, I64Max),
      Literal(<<"0", "o", "7", "7", "7", "_", "7", "7", "7", "_", "7", "7", "7", "_", "7", "7", "7", "_", "7", "7", "7", "_", "7", "7", "7", "_", "7", "7", "7">>, TRUE, I64Max),
      Literal(<<"9", "2", "2", "3", "3", "7", "2", "0", "3", "6", "8", "5", "4", "7", "7", "5", "8", "0", "8">>, TRUE, <<32768, 0, 0, 0>>),
      Literal(<<"0", "x", "8", "0", "0", "0", "_", "0", "0", "0", "0", "_", "0", "0", "0", "0", "_", "0", "0", "0", "0">>, TRUE, <<32768, 0, 0, 0>>),
      Literal(<<"1", "8", "_", "4", "4", "6", "_", "7", "4", "4", "_", "0", "7", "3", "_", "7", "0", "9", "_", "5", "5", "1", "_", "6", "1", "5">>, TRUE, U64Max),
      Literal(<<"-", "9", "2", "2", "3", "3", "7", "2", "0", "3", "6", "8", "5", "4", "7", "7", "5", "8", "0", "8">>, FALSE, I64Min),
      Literal(<<"+", "5">>, FALSE, FromInt(5)),
      Literal(<<"0", "x", "-", "5">>, FALSE, FromInt(-5)),
      Literal(<<"7", "u", "8">>, FALSE, FromInt(7)),
      Literal(<<"0", "x", "7", "F", "i", "6", "4">>, FALSE, FromInt(127)),
      Literal(<<"0", "_", "x", "1", "0">>, FALSE, Zero),
      Literal(<<"0", "b", "1", "0", "2">>, FALSE, Zero),
      Literal(<<"0", "o", "8">>, FALSE, Zero),
      Literal(<<"1", " ", "2">>, FALSE, Zero),
      Literal(<<"0", "x">>, FALSE, Zero),
      Literal(<<"_">>, FALSE, Zero),
      Literal(<<>>, FALSE, Zero) }

LiteralSamples == WrittenLiterals \cup TestLiterals \cup EdgeLiterals

\* ------------------------------------------------------------------- state

VARIABLES
    call,       \* the call under way: the function and its argument
    todo,       \* what the call has still to do: write_all and serialize calls
    sink,       \* the bytes the sink has accepted
    attempts,   \* the write_all calls made on the sink so far
    failAt,     \* the sink rejects the write_all call of this number (0: none)
    sinkErr,    \* the error it rejects it with
    result,     \* what serialize (or the writer) returned: Running until then
    outcome,    \* to_vec's end: "none", "returned" or "panicked"
    ident,      \* naming engine: the identifier handed to it
    rule,       \* the rename rule
    words,      \* split_into_words(ident), once computed
    renamed,    \* rule.apply(ident), then rule.apply of that
    npc,        \* how far the naming engine has got ("idle": not in use)
    cattrs,     \* derive macro: the attributes of the container
    fname,      \* the field's name as written (raw_field_name)
    fattrs,     \* the attributes of the field
    container,  \* build_container_attributes(cattrs), once computed
    fieldMeta,  \* what gen_struct_field gives the field's builder
    dpc,        \* how far the derive macro has got ("idle": not in use)
    literal,    \* the literal of an enum variant's discriminant
    discriminant, \* get_discriminant_value_from_str of it, once computed
    procs       \* concurrent callers of to_vec, each with its own buffer

serVars == <<call, todo, sink, attempts, failAt, sinkErr, result, outcome>>
nameVars == <<ident, rule, words, renamed, npc>>
deriveVars ==
    <<cattrs, fname, fattrs, container, fieldMeta, dpc, literal, discriminant>>
vars == <<serVars, nameVars, deriveVars, procs>>

\* What each part of the model leaves alone.
notSerVars == <<nameVars, deriveVars, procs>>
notNameVars == <<serVars, deriveVars, procs>>
notDeriveVars == <<serVars, nameVars, procs>>
notProcs == <<serVars, nameVars, deriveVars>>

\* The naming engine, not in use.
NamingIdle ==
    /\ ident = <<>>
    /\ rule = "Passthrough"
    /\ words = <<>>
    /\ renamed = <<>>
    /\ npc = "idle"

\* The derive macro before it has computed anything.
NotBuilt == [code |-> <<>>, rename_rule |-> "unset"]
NotGenerated ==
    [panicked |-> FALSE, name |-> <<>>, shape_of |-> "unset",
     raw_field_name |-> <<>>, flags |-> "unset", attributes |-> <<>>,
     doc |-> <<>>]

NoLiteral == Literal(<<>>, FALSE, Zero)
NotParsed == [panicked |-> FALSE, value |-> Zero]

\* The derive macro, not in use.
DeriveIdle ==
    /\ cattrs = <<>>
    /\ fname = <<>>
    /\ fattrs = <<>>
    /\ container = NotBuilt
    /\ fieldMeta = NotGenerated
    /\ dpc = "idle"
    /\ literal = NoLiteral
    /\ discriminant = NotParsed

\* The work a call starts with.
Start(c) ==
    CASE c.fn \in {"serialize", "to_vec"} -> <<SerItem(c.val)>>
      [] c.fn \in WriterFns -> Writes(ScalarWrites(c.val))
      [] c.fn = "write_str" -> Writes(write_str(c.val.str))
      [] c.fn = "write_map_len" -> Writes(write_map_len(c.val.num))

Init ==
    /\ call \in Calls
    /\ todo = Start(call)
    /\ sink = <<>>
    /\ attempts = 0
    \* to_vec writes into a Vec<u8>, which rejects nothing.
    /\ failAt \in (IF call.fn = "to_vec" THEN {0} ELSE 0..MaxFailAt)
    /\ sinkErr \in (IF failAt = 0
                      THEN {[tag |-> "err", kind |-> "BrokenPipe", msg |-> "sink"]}
                      ELSE SinkErrors)
    /\ result = Running
    /\ outcome = "none"
    /\ NamingIdle
    /\ DeriveIdle
    /\ procs = <<>>

\* serialize(pv, writer) is entered: it fails at once or goes on to write.
Dispatch ==
    /\ result = Running
    /\ todo # <<>>
    /\ todo[1].op = "ser"
    /\ LET r == serialize(todo[1].v)
       IN  IF r.err = Ok
             THEN /\ todo' = r.items \o Tail(todo)
                  /\ result' = result
           ELSE /\ todo' = <<>>
                /\ result' = r.err
    /\ UNCHANGED <<call, sink, attempts, failAt, sinkErr, outcome>>
    /\ UNCHANGED notSerVars

\* writer.write_all(chunk) succeeds.
WriteOk ==
    /\ result = Running
    /\ todo # <<>>
    /\ todo[1].op = "write"
    /\ attempts + 1 # failAt
    /\ attempts' = attempts + 1
    /\ sink' = SegCat(sink, todo[1].chunk)
    /\ todo' = Tail(todo)
    /\ UNCHANGED <<call, failAt, sinkErr, result, outcome>>
    /\ UNCHANGED notSerVars

\* A failed write_all whose error is dropped (let _ = ...) and the work goes on.
WriteErr_ignored ==
    /\ result = Running
    /\ todo # <<>>
    /\ todo[1].op = "write"
    /\ attempts + 1 = failAt
    /\ attempts' = attempts + 1
    /\ todo' = Tail(todo)
    /\ UNCHANGED <<call, sink, failAt, sinkErr, result, outcome>>
    /\ UNCHANGED notSerVars

\* writer.write_all(chunk) fails, the sink having taken some of the chunk's
\* first bytes: the error goes up through every ? to serialize's caller.
WriteErr ==
    /\ result = Running
    /\ todo # <<>>
    /\ todo[1].op = "write"
    /\ attempts + 1 = failAt
    /\ attempts' = attempts + 1
    /\ \E k \in 0..Len(todo[1].chunk.bytes) :
          /\ k < Len(todo[1].chunk.bytes) \/ todo[1].chunk.pad # Zero \/ k = 0
          /\ sink' = SegCat(sink, Lit(SubSeq(todo[1].chunk.bytes, 1, k)))
    /\ todo' = <<>>
    /\ result' = sinkErr
    /\ UNCHANGED <<call, failAt, sinkErr, outcome>>
    /\ UNCHANGED notSerVars

\* Nothing is left to do: Ok(()).
Return ==
    /\ result = Running
    /\ todo = <<>>
    /\ result' = Ok
    /\ UNCHANGED <<call, todo, sink, attempts, failAt, sinkErr, outcome>>
    /\ UNCHANGED notSerVars

\* to_vec: serialize(peek, &mut buffer).unwrap(); buffer
ToVecUnwrap ==
    /\ call.fn = "to_vec"
    /\ result # Running
    /\ outcome = "none"
    /\ outcome' = IF result = Ok THEN "returned" ELSE "panicked"
    /\ UNCHANGED <<call, todo, sink, attempts, failAt, sinkErr, result>>
    /\ UNCHANGED notSerVars

Next == Dispatch \/ WriteOk \/ WriteErr \/ Return \/ ToVecUnwrap

Spec == Init /\ [][Next]_vars

\* ------------------------------------------------------- naming engine runs

\* The serializer, not in use.
SerializerIdle ==
    /\ call = [fn |-> "none", val |-> MkScalar("none")]
    /\ todo = <<>>
    /\ sink = <<>>
    /\ attempts = 0
    /\ failAt = 0
    /\ sinkErr = [tag |-> "err", kind |-> "BrokenPipe", msg |-> "sink"]
    /\ result = Running
    /\ outcome = "none"

NamingInit ==
    /\ SerializerIdle
    /\ ident \in IdentSamples
    /\ rule \in RenameRules
    /\ words = <<>>
    /\ renamed = <<>>
    /\ npc = "start"
    /\ DeriveIdle
    /\ procs = <<>>

\* split_into_words(ident)
SplitWords ==
    /\ npc = "start"
    /\ words' = split_into_words(ident)
    /\ npc' = "split"
    /\ UNCHANGED <<ident, rule, renamed>>
    /\ UNCHANGED notNameVars

\* rule.apply(ident)
ApplyRule ==
    /\ npc = "split"
    /\ renamed' = <<apply(rule, ident)>>
    /\ npc' = "applied"
    /\ UNCHANGED <<ident, rule, words>>
    /\ UNCHANGED notNameVars

\* rule.apply(..) of the renamed identifier
ApplyAgain ==
    /\ npc = "applied"
    /\ renamed' = Append(renamed, apply(rule, renamed[1]))
    /\ npc' = "reapplied"
    /\ UNCHANGED <<ident, rule, words>>
    /\ UNCHANGED notNameVars

NamingNext == SplitWords \/ ApplyRule \/ ApplyAgain

SpecNaming == NamingInit /\ [][NamingNext]_vars

\* ------------------------------------------------------- derive macro runs

DeriveInit ==
    /\ SerializerIdle
    /\ NamingIdle
    /\ cattrs \in AttrSeqs(ContainerAttrPool, MaxContainerAttrs)
    /\ fname = <<>>
    /\ fattrs = <<>>
    /\ container = NotBuilt
    /\ fieldMeta = NotGenerated
    /\ dpc = "start"
    /\ literal = NoLiteral
    /\ discriminant = NotParsed
    /\ procs = <<>>

\* build_container_attributes(&parsed.attributes)
BuildContainerAttributes ==
    /\ dpc = "start"
    /\ container' = build_container_attributes(cattrs)
    /\ dpc' = "container"
    /\ UNCHANGED <<cattrs, fname, fattrs, fieldMeta, literal, discriminant>>
    /\ UNCHANGED notDeriveVars

\* gen_struct_field(FieldInfo { .. }) for a field of the container
GenStructField ==
    /\ dpc = "container"
    /\ \E raw_field_name \in FieldNames,
          attrs \in AttrSeqs(FieldAttrPool, MaxFieldAttrs) :
          /\ fname' = raw_field_name
          /\ fattrs' = attrs
          /\ fieldMeta' =
                gen_struct_field(FieldInfoOf(raw_field_name, attrs, container))
    /\ dpc' = "field"
    /\ UNCHANGED <<cattrs, container, literal, discriminant>>
    /\ UNCHANGED notDeriveVars

DeriveNext == BuildContainerAttributes \/ GenStructField

SpecDerive == DeriveInit /\ [][DeriveNext]_vars

\* ---------------------------------------------------- enum discriminant runs

DiscriminantInit ==
    /\ SerializerIdle
    /\ NamingIdle
    /\ cattrs = <<>>
    /\ fname = <<>>
    /\ fattrs = <<>>
    /\ container = NotBuilt
    /\ fieldMeta = NotGenerated
    /\ dpc = "literal"
    /\ literal \in LiteralSamples
    /\ discriminant = NotParsed
    /\ procs = <<>>

\* get_discriminant_value(lit): get_discriminant_value_from_str(&lit.to_string())
GetDiscriminantValue ==
    /\ dpc = "literal"
    /\ discriminant' = get_discriminant_value_from_str(literal.text)
    /\ dpc' = "discriminant"
    /\ UNCHANGED <<cattrs, fname, fattrs, container, fieldMeta, literal>>
    /\ UNCHANGED notDeriveVars

DiscriminantNext == GetDiscriminantValue

SpecDiscriminant == DiscriminantInit /\ [][DiscriminantNext]_vars

\* ------------------------------------------------------------------ claims

\* The k low bytes of n, most significant first, each found by its place.
Byte(n, j) ==
    LET limb == n[4 - (j \div 2)] % Limb
    IN  IF j % 2 = 0 THEN limb % 256 ELSE limb \div 256

BigEndian(n, k) == [i \in 1..k |-> Byte(n, k - i)]

\* The call has returned Ok(()) to its caller.
Done == result = Ok

\* The call hands the integer n of type ty to its writer.
IntCall(types) ==
    /\ call.fn \in WriterFns \cup {"serialize", "to_vec"}
    /\ call.val.def = "Scalar"
    /\ call.val.ty \in types

\* The unsigned table of the wire format.
UIntTable(n) ==
    IF InR(n, FromInt(0), FromInt(127)) THEN <<n[4]>>
    ELSE IF InR(n, FromInt(128), FromInt(255)) THEN <<204>> \o BigEndian(n, 1)
    ELSE IF InR(n, FromInt(256), FromInt(65535)) THEN <<205>> \o BigEndian(n, 2)
    ELSE IF InR(n, FromInt(65536), U32Max) THEN <<206>> \o BigEndian(n, 4)
    ELSE <<207>> \o BigEndian(n, 8)

\* C1: an unsigned integer n written as u8, u16, u32 or u64 comes out in the
\* minimal-width encoding of the table: n itself up to 127, 0xcc + 1 byte up
\* to 255, 0xcd + 2 bytes up to 65535, 0xce + 4 bytes up to 4294967295, 0xcf +
\* 8 bytes beyond; 127 -> [0x7f], 128 -> [0xcc,0x80], 65536 -> [0xce,0,1,0,0].
C1_UnsignedMinimalWidth ==
    (IntCall(UnsignedTypes) /\ Done) =>
        /\ sink = <<Lit(UIntTable(call.val.num))>>
        /\ call.val.num = FromInt(127) => sink = <<Lit(<<127>>)>>
        /\ call.val.num = FromInt(128) => sink = <<Lit(<<204, 128>>)>>
        /\ call.val.num = FromInt(65536) => sink = <<Lit(<<206, 0, 1, 0, 0>>)>>

C1_Witness ==
    /\ IntCall({"u32"}) /\ Done
    /\ call.val.num = FromInt(65536)
    /\ sink = <<Lit(<<206, 0, 1, 0, 0>>)>>

\* The ranges of the signed table (the positive ones are the unsigned table's).
SIntRanges ==
    << <<FromInt(-32), FromInt(-1)>>, <<FromInt(-128), FromInt(-33)>>,
       <<FromInt(-32768), FromInt(-129)>>, <<I32Min, FromInt(-32769)>>,
       <<I64Min, NumAdd(I32Min, -1)>>, <<FromInt(0), FromInt(127)>>,
       <<FromInt(128), FromInt(255)>>, <<FromInt(256), FromInt(65535)>>,
       <<FromInt(65536), U32Max>>, <<NumAdd(U32Max, 1), I64Max>> >>

SIntRangesOf(n) ==
    { i \in 1..Len(SIntRanges) : InR(n, SIntRanges[i][1], SIntRanges[i][2]) }

SIntTable(n) ==
    IF InR(n, FromInt(-32), FromInt(-1)) THEN BigEndian(n, 1)
    ELSE IF InR(n, FromInt(-128), FromInt(-33)) THEN <<208>> \o BigEndian(n, 1)
    ELSE IF InR(n, FromInt(-32768), FromInt(-129))
        THEN <<209>> \o BigEndian(n, 2)
    ELSE IF InR(n, I32Min, FromInt(-32769)) THEN <<210>> \o BigEndian(n, 4)
    ELSE IF NumLT(n, I32Min) THEN <<211>> \o BigEndian(n, 8)
    ELSE UIntTable(n)

\* C2: a signed integer n written as i8, i16, i32 or i64, the type's minimum
\* and maximum included, lies in exactly one range of the table and comes out
\* as that range says: n's own byte in -32..-1, 0xd0 + 1 byte down to -128,
\* 0xd1 + 2 bytes down to -32768, 0xd2 + 4 bytes down to -2147483648, 0xd3 + 8
\* bytes below, and for n >= 0 the bytes of the unsigned table.
C2_SignedRanges ==
    (IntCall(SignedTypes) /\ Done) =>
        /\ Cardinality(SIntRangesOf(call.val.num)) = 1
        /\ sink = <<Lit(SIntTable(call.val.num))>>

C2_Witness ==
    /\ IntCall({"i64"}) /\ Done
    /\ call.val.num = I64Min
    /\ sink = <<Lit(<<211, 128, 0, 0, 0, 0, 0, 0, 0>>)>>

\* The encoding of a value, by recursion on the value: a struct is its map
\* header, then per field the name as a string and the field's own encoding.
RECURSIVE Encoding(_)
RECURSIVE FieldsEncoding(_)
Encoding(v) ==
    IF v.def = "Struct"
        THEN write_map_len(FromInt(Len(v.fields))) \o FieldsEncoding(v.fields)
    ELSE ScalarWrites(v)
FieldsEncoding(fs) ==
    LET n == Len(fs)
    IN  IF n = 0 THEN <<>>
        ELSE IF n = 1 THEN write_str(fs[1].name) \o Encoding(fs[1].value)
        ELSE FieldsEncoding(SubSeq(fs, 1, n \div 2))
             \o FieldsEncoding(SubSeq(fs, (n \div 2) + 1, n))

\* The call serializes a struct.
StructCall ==
    /\ call.fn \in {"serialize", "to_vec"}
    /\ call.val.def = "Struct"

\* {name: "Ada", age: 36u8}
AdaStruct ==
    MkStruct(<<Field(SName, MkStr(SAda)), Field(SAge, MkInt("u8", FromInt(36)))>>)

\* C3: a struct comes out as a map header of its declared field count, then
\* per field, in the order of declaration, the field's name as a string and
\* the field's value, serialized in turn, and nothing before or after;
\* {name: "Ada", age: 36u8} is [0x82, 0xa4 "name", 0xa3 "Ada", 0xa3 "age", 0x24].
C3_StructAsMap ==
    (StructCall /\ Done) =>
        /\ sink = Concat(Encoding(call.val))
        /\ call.val = AdaStruct =>
              sink = <<Lit(<<130, 164, 110, 97, 109, 101, 163, 65, 100, 97,
                            163, 97, 103, 101, 36>>)>>

C3_Witness ==
    /\ StructCall /\ Done
    /\ call.val = AdaStruct
    /\ Len(sink[1].bytes) = 15

\* The shape has no encoding path: a scalar of none of the nine types, or a
\* Def that is neither Scalar nor Struct.
NoPath(v) ==
    \/ v.def = "Scalar" /\ v.ty \notin ScalarTypes
    \/ v.def \notin {"Scalar", "Struct"}

RECURSIVE HasNoPath(_)
HasNoPath(v) ==
    \/ NoPath(v)
    \/ \E i \in 1..Len(v.fields) : HasNoPath(v.fields[i].value)

UnsupportedErrors == {UnsupportedScalar, UnsupportedType}

\* C4: serializing a value with no encoding path (an Opaque, a scalar of
\* another type, another kind) fails with an unsupported-type error and writes
\* nothing for it; a value that holds such a value never serializes to Ok.
C4_UnsupportedRejected ==
    (call.fn \in {"serialize", "to_vec"} /\ result # Running) =>
        /\ NoPath(call.val) =>
              result \in UnsupportedErrors /\ sink = <<>> /\ attempts = 0
        /\ HasNoPath(call.val) =>
              result # Ok /\ (failAt = 0 => result \in UnsupportedErrors)

C4_Witness ==
    /\ call.fn = "serialize"
    /\ call.val = OpaqueValue
    /\ result = UnsupportedScalar

\* C5: to_vec gives its caller the bytes or an error value for every input: a
\* failure inside serialization does not abort the call.
C5_ToVecReturnsErrors ==
    call.fn = "to_vec" => outcome # "panicked"

\* The string header of the wire format, for a length of L bytes.
StrHeaderTable(L) ==
    IF InR(L, FromInt(0), FromInt(31)) THEN <<160 + L[4]>>
    ELSE IF InR(L, FromInt(32), FromInt(255)) THEN <<217>> \o BigEndian(L, 1)
    ELSE IF InR(L, FromInt(256), FromInt(65535)) THEN <<218>> \o BigEndian(L, 2)
    ELSE <<219>> \o BigEndian(L, 4)

StrCall ==
    \/ call.fn = "write_str"
    \/ call.fn \in {"serialize", "to_vec"} /\ call.val.ty = "String"

\* C6: a string of L bytes comes out as a header set by L, then its bytes:
\* 0xa0|L up to 31, 0xd9 + 1 byte up to 255, 0xda + 2 bytes up to 65535,
\* 0xdb + 4 bytes (big-endian) beyond.
C6_StringHeader ==
    (StrCall /\ Done) =>
        sink = Concat(<<Lit(StrHeaderTable(StrLen(call.val.str))), call.val.str>>)

C6_Witness ==
    /\ StrCall /\ Done
    /\ StrLen(call.val.str) = FromInt(65536)
    /\ sink[1].bytes = <<219, 0, 1, 0, 0, 65, 100, 97>>

\* The map header of the wire format, for n fields.
MapHeaderTable(n) ==
    IF InR(n, FromInt(0), FromInt(15)) THEN <<128 + n[4]>>
    ELSE IF InR(n, FromInt(16), FromInt(65535)) THEN <<222>> \o BigEndian(n, 2)
    ELSE <<223>> \o BigEndian(n, 4)

IsPrefix(s, q) == Len(s) <= Len(q) /\ SubSeq(q, 1, Len(s)) = s

\* C7: the map header of n fields is 0x80|n up to 15, 0xde + n in 2 bytes up
\* to 65535, 0xdf + n in 4 bytes (big-endian) beyond; a struct's output
\* starts with the header of its field count.
C7_MapHeader ==
    /\ (call.fn = "write_map_len" /\ Done) =>
          sink = <<Lit(MapHeaderTable(call.val.num))>>
    /\ (StructCall /\ Done) =>
          IsPrefix(MapHeaderTable(FromInt(Len(call.val.fields))), sink[1].bytes)

C7_Witness ==
    /\ call.fn = "write_map_len" /\ Done
    /\ call.val.num = FromInt(65536)
    /\ sink = <<Lit(<<223, 0, 1, 0, 0>>)>>

\* C8: once the sink has rejected a write, the call returns that very error
\* and makes no further write_all call: not for the rest of the value, and
\* not for a later field.
C8_SinkErrorPropagates ==
    (failAt # 0 /\ attempts >= failAt) =>
        /\ result = sinkErr
        /\ attempts = failAt
        /\ todo = <<>>

\* The second field's name is rejected, with the value and a field to come.
C8_Witness ==
    /\ call.fn = "serialize"
    /\ call.val = AdaStruct
    /\ failAt = 3 /\ attempts = 3
    /\ result = [tag |-> "err", kind |-> "WriteZero", msg |-> "sink"]

\* ------------------------------------------------------ naming claims

Str_HTTP == <<"H", "T", "T", "P">>
Str_Request == <<"R", "e", "q", "u", "e", "s", "t">>
Str_HttpRequest == <<"H", "t", "t", "p", "R", "e", "q", "u", "e", "s", "t">>
Str_http_request ==
    <<"h", "t", "t", "p", "_", "r", "e", "q", "u", "e", "s", "t">>
Str_foo_bar == <<"f", "o", "o", "_", "b", "a", "r">>

\* rule.apply(ident) has been computed, under this rule, for this identifier.
Applied(r, s) == rule = r /\ ident = s /\ Len(renamed) >= 1

\* What C9 says of the segmentation and of snake_case.
C9_Rest ==
    /\ (ident = HTTPRequest /\ npc # "start") => words = <<Str_HTTP, Str_Request>>
    /\ Applied("SnakeCase", HTTPRequest) => renamed[1] = Str_http_request
    /\ (ident = FooBar /\ npc # "start") =>
          words = <<<<"f", "o", "o">>, <<"B", "a", "r">>>>
    /\ Applied("SnakeCase", FooBar) => renamed[1] = Str_foo_bar

\* C9 as stated: "HTTPRequest" is segmented as ["HTTP","Request"] and becomes
\* "HTTPRequest" in PascalCase and "http_request" in snake_case; "fooBar" is
\* segmented as ["foo","Bar"] and becomes "foo_bar".
C9_AcronymBoundary ==
    /\ C9_Rest
    /\ Applied("PascalCase", HTTPRequest) => renamed[1] = HTTPRequest

\* C9, amended: "HTTPRequest" is segmented as ["HTTP","Request"] and becomes
\* "HttpRequest" in PascalCase (every word is capitalized: its first letter
\* up, the rest down) and "http_request" in snake_case; "fooBar" is segmented
\* as ["foo","Bar"] and becomes "foo_bar".
C9_AcronymBoundaryAmended ==
    /\ C9_Rest
    /\ Applied("PascalCase", HTTPRequest) => renamed[1] = Str_HttpRequest

C9_Witness ==
    /\ Applied("PascalCase", HTTPRequest)
    /\ words = <<Str_HTTP, Str_Request>>
    /\ renamed[1] = Str_HttpRequest

IsSeparator(c) == c \in {"_", "-", " "}
IsDigit(c) == c \in {"0", "1", "2", "3", "4", "5", "6", "7", "8", "9"}

\* s is in a single-case, separator-consistent form: its letters are all
\* lowercase or all uppercase, and its words are joined by one separator.
SingleCaseForm(s) ==
    /\ \/ \A i \in 1..Len(s) : ~is_uppercase(s[i])
       \/ \A i \in 1..Len(s) : ~is_lowercase(s[i])
    /\ \A i, j \in 1..Len(s) :
          IsSeparator(s[i]) /\ IsSeparator(s[j]) => s[i] = s[j]
    /\ \A i \in 1..Len(s) :
          IsSeparator(s[i]) => i > 1 /\ i < Len(s) /\ ~IsSeparator(s[i + 1])

\* The rule has been applied to ident, and again to the result.
AppliedTwice == npc = "reapplied"

\* C10 as stated: for every rule and every identifier in a single-case,
\* separator-consistent form, one-letter words included, applying the rule
\* twice gives what applying it once gives.
C10_Idempotent ==
    (AppliedTwice /\ SingleCaseForm(ident)) => renamed[2] = renamed[1]

\* Where the rule's second application is known to repeat the first.
IdempotentCase(r, s) ==
    CASE r \in {"PascalCase", "CamelCase"} ->
            \A i \in 1..Len(words) : Len(words[i]) >= 2
      [] r \in {"ScreamingSnakeCase", "ScreamingKebabCase"} ->
            \A i \in 1..(Len(s) - 1) : ~(IsDigit(s[i]) /\ is_lowercase(s[i + 1]))
      [] OTHER -> TRUE

\* C10, amended: for an identifier in a single-case, separator-consistent
\* form, applying the rule twice gives what applying it once gives: under
\* Lowercase, Uppercase, SnakeCase, KebabCase and Passthrough always; under
\* PascalCase and CamelCase when every word split_into_words finds in it has
\* at least two characters; under the two SCREAMING rules when no digit in it
\* is directly followed by a lowercase letter.
C10_IdempotentAmended ==
    (AppliedTwice /\ SingleCaseForm(ident) /\ IdempotentCase(rule, ident)) =>
        renamed[2] = renamed[1]

C10_Witness ==
    /\ AppliedTwice
    /\ rule = "PascalCase"
    /\ ident = Str_foo_bar
    /\ renamed = <<<<"F", "o", "o", "B", "a", "r">>, <<"F", "o", "o", "B", "a", "r">>>>

\* The rules that split the identifier into words and join the words again.
WordRules ==
    {"PascalCase", "CamelCase", "SnakeCase", "ScreamingSnakeCase",
     "KebabCase", "ScreamingKebabCase"}

\* ident is empty or made of separators only, and rule.apply(ident) is known.
SeparatorsOnly ==
    /\ Len(renamed) >= 1
    /\ \A i \in 1..Len(ident) : IsSeparator(ident[i])

\* C11 as stated: under every rule the empty string becomes the empty string,
\* and so does a non-empty string made only of separators ('_', '-', ' ').
C11_SeparatorsOnlyEmpty ==
    SeparatorsOnly => renamed[1] = <<>>

\* C11, amended: under every rule the empty string becomes the empty string;
\* a non-empty string made only of separators becomes the empty string under
\* the six rules that split into words (PascalCase, CamelCase, SnakeCase,
\* ScreamingSnakeCase, KebabCase, ScreamingKebabCase) and is returned as it
\* is under Lowercase, Uppercase and Passthrough.
C11_SeparatorsOnlyAmended ==
    SeparatorsOnly =>
        renamed[1] = (IF rule \in WordRules THEN <<>> ELSE ident)

C11_Witness ==
    /\ SeparatorsOnly
    /\ rule = "KebabCase"
    /\ ident = <<"_", "-", " ">>
    /\ renamed[1] = <<>>

\* ------------------------------------------------------- concurrent calls
\* Several callers of to_vec at once.  A call's state is its own: the value
\* it borrows, its frames (what it has still to do) and the Vec<u8> it made.

\* {a: 1u8, b: "Ada", c: -33i8}
AbcStruct ==
    MkStruct(<<Field(Lit(<<97>>), MkInt("u8", FromInt(1))),
               Field(Lit(<<98>>), MkStr(SAda)),
               Field(Lit(<<99>>), MkInt("i8", FromInt(-33)))>>)

\* The values the concurrent callers serialize.
CallerValues ==
    { AbcStruct, MkInt("u32", FromInt(65536)), OpaqueValue }

\* to_vec with a buffer kept from the caller's last call instead of a new one.
ToVecEntry_kept_buffer(p, v) ==
    [p EXCEPT !.val = v, !.todo = <<SerItem(v)>>,
              !.result = Running, !.outcome = "none"]

\* to_vec(&v) is entered: a new, empty buffer, and serialize(peek, &mut buffer).
ToVecEntry(p, v) ==
    [p EXCEPT !.val = v, !.todo = <<SerItem(v)>>, !.buffer = <<>>,
              !.result = Running, !.outcome = "none"]

\* A caller that has called nothing yet.
NewCaller ==
    [val |-> OpaqueValue, todo |-> <<>>, buffer |-> <<>>, result |-> Running,
     outcome |-> "none", returned |-> <<>>]

ConcInit ==
    /\ SerializerIdle
    /\ NamingIdle
    /\ DeriveIdle
    /\ procs \in { [t \in 1..NumCallers |-> ToVecEntry(NewCaller, vals[t])] :
                      vals \in [1..NumCallers -> CallerValues] }

\* Caller t's serialize is entered (for the value, or for a field's value).
ConcDispatch(t) ==
    /\ procs[t].result = Running
    /\ procs[t].todo # <<>>
    /\ procs[t].todo[1].op = "ser"
    /\ LET r == serialize(procs[t].todo[1].v)
       IN  procs' = [procs EXCEPT ![t] =
                IF r.err = Ok
                    THEN [@ EXCEPT !.todo = r.items \o Tail(@)]
                ELSE [@ EXCEPT !.todo = <<>>, !.result = r.err]]
    /\ UNCHANGED notProcs

\* ConcWrite with one buffer shared by all the callers (the first one's).
ConcWrite_shared_buffer(t) ==
    /\ procs[t].result = Running
    /\ procs[t].todo # <<>>
    /\ procs[t].todo[1].op = "write"
    /\ procs' = [q \in 1..NumCallers |->
          LET wrote == IF q = 1
                         THEN [procs[q] EXCEPT
                                 !.buffer = SegCat(@, procs[t].todo[1].chunk)]
                       ELSE procs[q]
          IN  IF q = t THEN [wrote EXCEPT !.todo = Tail(@)] ELSE wrote]
    /\ UNCHANGED notProcs

\* Caller t's writer.write_all(chunk): the chunk goes to t's own buffer.
ConcWrite(t) ==
    /\ procs[t].result = Running
    /\ procs[t].todo # <<>>
    /\ procs[t].todo[1].op = "write"
    /\ procs' = [procs EXCEPT ![t] =
          [@ EXCEPT !.buffer = SegCat(@, procs[t].todo[1].chunk),
                    !.todo = Tail(@)]]
    /\ UNCHANGED notProcs

\* Caller t's serialize has nothing left to do: Ok(()).
ConcReturn(t) ==
    /\ procs[t].result = Running
    /\ procs[t].todo = <<>>
    /\ procs' = [procs EXCEPT ![t] = [@ EXCEPT !.result = Ok]]
    /\ UNCHANGED notProcs

\* Caller t's to_vec: serialize(..).unwrap(); buffer
ConcUnwrap(t) ==
    /\ procs[t].result # Running
    /\ procs[t].outcome = "none"
    /\ procs' = [procs EXCEPT ![t] =
          IF procs[t].result = Ok
              THEN [@ EXCEPT !.outcome = "returned",
                             !.returned = Append(@, procs[t].buffer)]
          ELSE [@ EXCEPT !.outcome = "panicked"]]
    /\ UNCHANGED notProcs

\* The calls made so far beyond each caller's first.
RECURSIVE Repeats(_)
Repeats(n) ==
    IF n = 0 THEN 0
    ELSE Repeats(n - 1)
         + (IF procs[n].outcome = "returned" THEN Len(procs[n].returned) - 1
            ELSE Len(procs[n].returned))

\* Caller t calls to_vec on its value once more.
ConcCallAgain(t) ==
    /\ procs[t].outcome = "returned"
    /\ Repeats(NumCallers) < MaxRepeats
    /\ procs' = [procs EXCEPT ![t] = ToVecEntry(@, procs[t].val)]
    /\ UNCHANGED notProcs

ConcNext ==
    \E t \in 1..NumCallers :
        \/ ConcDispatch(t)
        \/ ConcWrite(t)
        \/ ConcReturn(t)
        \/ ConcUnwrap(t)
        \/ ConcCallAgain(t)

SpecConc == ConcInit /\ [][ConcNext]_vars

\* ------------------------------------------------------ derive claims

\* gen_struct_field has returned the field's metadata (it did not panic).
FieldDone == dpc = "field" /\ ~fieldMeta.panicked

\* The value a field attribute's `rename = "..."` states, as its author wrote
\* it between the quotes (<<>>: the attribute states no rename).
RenameWritten(a) ==
    CASE a = Attr("Other", <<"r", "e", "n", "a", "m", "e", " ", "=", " ", "\"", "w", "i", "r", "e", "\"">>) -> <<"w", "i", "r", "e">>
      [] a = Attr("Other", <<"r", "e", "n", "a", "m", "e", " ", "=", " ", "\"", "a", ",", "b", "\"">>) -> <<"a", ",", "b">>
      [] a = Attr("Other", <<"s", "e", "n", "s", "i", "t", "i", "v", "e", ",", " ", "r", "e", "n", "a", "m", "e", " ", "=", " ", "\"", "A", "b", "\"">>) -> <<"A", "b">>
      [] OTHER -> <<>>

\* The places of the field's attributes that state a rename.
RenamePlaces == { i \in 1..Len(fattrs) : RenameWritten(fattrs[i]) # <<>> }

\* The field's explicit rename value (the last one, if it has several).
ExplicitRename ==
    RenameWritten(fattrs[CHOOSE i \in RenamePlaces : \A j \in RenamePlaces : j <= i])

\* The rule a container attribute's rename_all names, by the eight recognised
\* names (NoRule: the attribute names none of them, or is no rename_all).
RuleWritten(a) ==
    CASE a = Attr("RenameAll", <<"\"", "l", "o", "w", "e", "r", "c", "a", "s", "e", "\"">>) -> "Lowercase"
      [] a = Attr("RenameAll", <<"\"", "U", "P", "P", "E", "R", "C", "A", "S", "E", "\"">>) -> "Uppercase"
      [] a = Attr("RenameAll", <<"\"", "P", "a", "s", "c", "a", "l", "C", "a", "s", "e", "\"">>) -> "PascalCase"
      [] a = Attr("RenameAll", <<"\"", "c", "a", "m", "e", "l", "C", "a", "s", "e", "\"">>) -> "CamelCase"
      [] a = Attr("RenameAll", <<"\"", "s", "n", "a", "k", "e", "_", "c", "a", "s", "e", "\"">>) -> "SnakeCase"
      [] a = Attr("RenameAll", <<"\"", "k", "e", "b", "a", "b", "-", "c", "a", "s", "e", "\"">>) -> "KebabCase"
      [] a = Attr("RenameAll", <<"\"", "S", "C", "R", "E", "A", "M", "I", "N", "G", "-", "K", "E", "B", "A", "B", "-", "C", "A", "S", "E", "\"">>) -> "ScreamingKebabCase"
      [] a = Attr("Other", <<"r", "e", "n", "a", "m", "e", "_", "a", "l", "l", " ", "=", " ", "\"", "S", "C", "R", "E", "A", "M", "I", "N", "G", "_", "S", "N", "A", "K", "E", "_", "C", "A", "S", "E", "\"">>) ->
            "ScreamingSnakeCase"
      [] OTHER -> NoRule

RulePlaces == { i \in 1..Len(cattrs) : RuleWritten(cattrs[i]) # NoRule }

\* The container's configured rule (the last recognised one), or NoRule.
ConfiguredRule ==
    IF RulePlaces = {} THEN NoRule
    ELSE RuleWritten(cattrs[CHOOSE i \in RulePlaces : \A j \in RulePlaces : j <= i])

\* The field's name as the program text has it, without a raw identifier's r#.
DeclaredName ==
    IF Len(fname) >= 2 /\ fname[1] = "r" /\ fname[2] = "#"
        THEN SubSeq(fname, 3, Len(fname)) ELSE fname

\* C12: the name baked into a field's metadata is the explicit rename value
\* if the field has a rename attribute, whatever the container's rule; else
\* the container's rename_all rule applied to the field's name (without r#);
\* else, with no rule or an unrecognised rule string, the field's name as it
\* is (Passthrough).
C12_WireNamePrecedence ==
    FieldDone =>
        fieldMeta.name =
            (IF RenamePlaces # {} THEN ExplicitRename
             ELSE IF ConfiguredRule # NoRule THEN apply(ConfiguredRule, DeclaredName)
             ELSE DeclaredName)

AllDigits(s) == \A i \in 1..Len(s) : IsDigit(s[i])

\* C13 as stated: a field whose name is made of ASCII digits only keeps its
\* name in the metadata, whatever the container's rule and whatever
\* attributes the field carries.
C13_NumericNeverRenamed ==
    (FieldDone /\ AllDigits(fname)) => fieldMeta.name = fname

\* C13, amended: a field whose name is made of ASCII digits only and that
\* carries no explicit rename attribute keeps its name in the metadata,
\* whatever the container's rule and whatever other attributes it carries.
C13_NumericNeverRenamedAmended ==
    (FieldDone /\ AllDigits(fname) /\ RenamePlaces = {}) => fieldMeta.name = fname

C13_Witness ==
    /\ FieldDone
    /\ fname = <<"1", "2">>
    /\ container.rename_rule = "ScreamingKebabCase"
    /\ fattrs = <<Attr("Other", <<"s", "k", "i", "p", "_", "s", "e", "r", "i", "a", "l", "i", "z", "i", "n", "g", "_", "i", "f", " ", "=", " ", "f">>), Attr("Default", <<>>)>>
    /\ fieldMeta.name = <<"1", "2">>

\* ------------------------------------- repeated and concurrent calls: claims

Callers == DOMAIN procs

\* The outputs of the calls that have returned, each with the value it is
\* the output for.
Outputs ==
    UNION { { [val |-> procs[t].val, bytes |-> procs[t].returned[k]] :
                k \in 1..Len(procs[t].returned) } : t \in Callers }

\* C14: serializing the same value twice gives the same bytes: every call's
\* output for a value equals every other call's output for it, be it an
\* earlier call of the same caller (nothing is carried from call to call) or
\* a call of another caller.
C14_Deterministic ==
    \A o1, o2 \in Outputs : o1.val = o2.val => o1.bytes = o2.bytes

C14_Witness ==
    \E t \in Callers :
        /\ procs[t].val = AbcStruct
        /\ Len(procs[t].returned) = 2
        /\ procs[t].returned[1] = procs[t].returned[2]
        /\ procs[t].returned[1] # <<>>

\* {a: 1u8, b: "Ada", c: -33i8} as a map of 3 entries, keys a, b, c in order.
AbcBytes ==
    <<131, 161, 97, 1, 161, 98, 163, 65, 100, 97, 161, 99, 208, 223>>

\* C15: with several calls under way at once, each on its own value and
\* with its own buffer, and their write steps interleaved in any way, every
\* call's output is the output of that call run alone; the struct with the
\* fields a, b, c is always a map of 3 entries with the keys a, b, c in order.
C15_Isolated ==
    \A o \in Outputs :
        /\ o.bytes = Concat(Encoding(o.val))
        /\ o.val = AbcStruct => o.bytes = <<Lit(AbcBytes)>>

\* A call has returned the struct's bytes while another call was part-way.
C15_Witness ==
    /\ Cardinality(Callers) >= 2
    /\ procs[1].val = AbcStruct
    /\ procs[1].returned = <<<<Lit(AbcBytes)>>>>
    /\ procs[1].outcome = "returned"
    /\ procs[2].val # AbcStruct
    /\ procs[2].result = Running
    /\ procs[2].buffer # <<>>
    /\ procs[2].todo # <<>>

\* ------------------------------------------------ enum discriminants: claims

\* The literal has been evaluated.
Evaluated == dpc = "discriminant"

\* C16: get_discriminant_value_from_str returns the numeric value of a literal
\* written as optional whitespace, an optional 0x/0X, 0b/0B or 0o/0O prefix,
\* digits of the radix (hexadecimal letters in either case) and '_'
\* separators, whenever that value is an i64; and whatever the text, it
\* returns the literal's value or panics, never another number.
C16_DiscriminantValue ==
    Evaluated =>
        /\ (literal.plain /\ InR(literal.num, I64Min, I64Max)) =>
                discriminant = [panicked |-> FALSE, value |-> literal.num]
        /\ literal \in WrittenLiterals \cup TestLiterals => ~discriminant.panicked
        /\ ~InR(literal.num, I64Min, I64Max) => discriminant.panicked
        /\ discriminant.panicked \/ discriminant.value = literal.num

C16_Witness ==
    /\ Evaluated
    /\ literal.text = <<"0", "x", "B", "E", "_", "E", "F">>
    /\ discriminant = [panicked |-> FALSE, value |-> FromInt(48879)]

\* ------------------------------------------------- word boundaries: claims

\* A word starts before the uppercase character at place i of s: the word so
\* far is not empty and either the character before is a lowercase letter or
\* a digit, or it is uppercase and the character after place i is lowercase.
UpperBoundary(s, i) ==
    /\ is_uppercase(s[i])
    /\ i > 1
    /\ ~IsSeparator(s[i - 1])
    /\ \/ is_lowercase(s[i - 1]) \/ IsDigit(s[i - 1])
       \/ /\ is_uppercase(s[i - 1])
          /\ i + 1 <= Len(s)
          /\ is_lowercase(s[i + 1])

\* The places where a word starts: after a separator or the start of s, and
\* at every such boundary.
WordStarts(s) ==
    { i \in 1..Len(s) :
        /\ ~IsSeparator(s[i])
        /\ i = 1 \/ IsSeparator(s[i - 1]) \/ UpperBoundary(s, i) }

\* The word that starts at place i: up to the next start or separator.
WordFrom(s, i) ==
    SubSeq(s, i,
           CHOOSE j \in i..Len(s) :
              /\ \A k \in (i + 1)..j : ~IsSeparator(s[k]) /\ k \notin WordStarts(s)
              /\ j = Len(s) \/ IsSeparator(s[j + 1]) \/ (j + 1) \in WordStarts(s))

\* The words of s by these boundaries, in order.
WordsByBoundaries(s) ==
    LET starts == WordStarts(s)
        nth(k) == CHOOSE p \in starts : Cardinality({ q \in starts : q <= p }) = k
    IN  [k \in 1..Cardinality(starts) |-> WordFrom(s, nth(k))]

\* C17: split_into_words starts a new word before an uppercase character at
\* place i exactly when the current word is not empty and the character before
\* is a lowercase letter or digit, or is uppercase with a lowercase character
\* at place i + 1; separators end a word and are dropped; there is no other
\* boundary -- also when the uppercase letter occurs earlier in the identifier.
C17_WordBoundaries == npc # "start" => words = WordsByBoundaries(ident)

\* ------------------------------------------------- no field skipped: claims

\* The value with every flag and attribute of its fields taken away.
RECURSIVE Plain(_)
Plain(v) ==
    IF v.def = "Struct"
        THEN MkStruct([i \in 1..Len(v.fields) |->
                          Field(v.fields[i].name, Plain(v.fields[i].value))])
    ELSE v

\* The bytes of a buffer, the bytes left open read as zeros.
RECURSIVE Flat(_)
Flat(buf) ==
    IF buf = <<>> THEN <<>>
    ELSE buf[1].bytes \o [i \in 1..buf[1].pad[4] |-> 0] \o Flat(Tail(buf))

\* What a reader of MessagePack finds: a string, an integer, or a map with the
\* pair count of its header and what the values of its pairs are.
Leaf(kind) == [kind |-> kind, pairs |-> 0, kids |-> <<>>]
Found(end, shape) == [end |-> end, shape |-> shape]

\* The value that starts at place p of bs, and the place after it; a map is
\* read as its header says: that many pairs of a string and a value.
RECURSIVE DecodeValue(_, _)
RECURSIVE DecodePairs(_, _, _, _)
DecodeValue(bs, p) ==
    IF p > Len(bs) THEN Found(Len(bs) + 2, Leaf("missing"))
    ELSE CASE bs[p] \in 128..143 -> DecodePairs(bs, p + 1, bs[p] - 128, <<>>)
           [] bs[p] = 222 /\ p + 2 <= Len(bs) ->
                DecodePairs(bs, p + 3, bs[p + 1] * 256 + bs[p + 2], <<>>)
           [] bs[p] \in 160..191 -> Found(p + 1 + (bs[p] - 160), Leaf("str"))
           [] bs[p] = 217 /\ p + 1 <= Len(bs) ->
                Found(p + 2 + bs[p + 1], Leaf("str"))
           [] bs[p] \in 0..127 \cup 224..255 -> Found(p + 1, Leaf("int"))
           [] bs[p] \in {204, 208} -> Found(p + 2, Leaf("int"))
           [] bs[p] \in {205, 209} -> Found(p + 3, Leaf("int"))
           [] bs[p] \in {206, 210} -> Found(p + 5, Leaf("int"))
           [] bs[p] \in {207, 211} -> Found(p + 9, Leaf("int"))
           [] OTHER -> Found(Len(bs) + 2, Leaf("unknown"))
DecodePairs(bs, p, n, kids) ==
    IF Len(kids) = n
        THEN Found(p, [kind |-> "map", pairs |-> n, kids |-> kids])
    ELSE LET key == DecodeValue(bs, p)
             val == DecodeValue(bs, key.end)
         IN  IF key.shape.kind # "str" \/ val.end > Len(bs) + 1
                 THEN Found(Len(bs) + 2, Leaf("missing"))
             ELSE DecodePairs(bs, val.end, n, Append(kids, val.shape))

\* What the shape declares: per struct its field count and its fields' values.
RECURSIVE Declared(_)
Declared(v) ==
    IF v.def = "Struct"
        THEN [kind |-> "map", pairs |-> Len(DeclaredFields(v)),
              kids |-> [i \in 1..Len(v.fields) |-> Declared(v.fields[i].value)]]
    ELSE IF v.ty = "String" THEN Leaf("str")
    ELSE Leaf("int")

\* The struct, or a struct within it, has a field with a flag or an attribute.
RECURSIVE Marked(_)
Marked(v) ==
    \E i \in 1..Len(v.fields) :
        \/ v.fields[i].flags # "EMPTY"
        \/ v.fields[i].attributes # <<>>
        \/ Marked(v.fields[i].value)

\* C18: the serializer leaves out no field: once a struct is serialized, at
\* every nesting level the pairs that follow a map header are as many as the
\* header says and as the struct declares fields, nothing is left over, and
\* the bytes are those of the same struct without any flag or attribute
\* (sensitive, skip_serializing, skip_serializing_if, default).
C18_NoFieldSkipped ==
    (StructCall /\ Done) =>
        /\ DecodeValue(Flat(sink), 1) =
              Found(Len(Flat(sink)) + 1, Declared(call.val))
        /\ sink = Concat(Encoding(Plain(call.val)))

C18_Witness ==
    /\ StructCall /\ Done
    /\ Len(call.val.fields) = 2
    /\ call.val.fields[1].flags = "SENSITIVE"
    /\ call.val.fields[2].value.def = "Struct"
    /\ Marked(call.val.fields[2].value)
    /\ DecodeValue(Flat(sink), 1).shape.kids[2].pairs = 2

\* -------------------------------------------- value decides the bytes: claims

\* What the writer of the type ty puts out for n, as one buffer.
WrittenAs(ty, n) == Concat(ScalarWrites(MkInt(ty, n)))

\* C19: the bytes of an integer depend on its value alone: the writer of
\* every type that can hold the value puts out the bytes this call put out,
\* and no writer puts them out for another value.
C19_ValueDecidesBytes ==
    (IntCall(IntTypes) /\ Done) =>
        /\ \A ty \in IntTypes :
              InType(call.val.num, ty) => WrittenAs(ty, call.val.num) = sink
        /\ \A ty \in IntTypes : \A m \in IntSamples(ty) :
              m # call.val.num => WrittenAs(ty, m) # sink

C19_Witness ==
    /\ IntCall({"i16"}) /\ Done
    /\ call.val.num = FromInt(255)
    /\ InType(call.val.num, "u8")
    /\ sink = <<Lit(<<204, 255>>)>>
    /\ WrittenAs("u8", FromInt(255)) = sink

\* ------------------------------------------------- header lengths: claims

\* The length field of the string or map header that starts the bytes bs, and
\* the number of bytes the header takes.
HeaderLength(bs) ==
    CASE bs[1] \in 160..191 -> FromInt(bs[1] - 160)
      [] bs[1] \in 128..143 -> FromInt(bs[1] - 128)
      [] bs[1] = 217 -> FromInt(bs[2])
      [] bs[1] \in {218, 222} -> FromInt(bs[2] * 256 + bs[3])
      [] bs[1] \in {219, 223} ->
            <<0, 0, bs[2] * 256 + bs[3], bs[4] * 256 + bs[5]>>

HeaderSize(bs) ==
    CASE bs[1] \in 160..191 \cup 128..143 -> 1
      [] bs[1] = 217 -> 2
      [] bs[1] \in {218, 222} -> 3
      [] bs[1] \in {219, 223} -> 5

\* C20: the length in a string header or a map header is the actual length:
\* a string of L bytes has a header that decodes to L and is followed by L raw
\* bytes, and n declared fields have a map header that decodes to n -- for
\* lengths of 2^32 and more as well.
C20_HeaderLength ==
    /\ (StrCall /\ Done) =>
          /\ Len(sink) = 1
          /\ HeaderLength(sink[1].bytes) = StrLen(call.val.str)
          /\ NumAdd(sink[1].pad, Len(sink[1].bytes) - HeaderSize(sink[1].bytes))
                = StrLen(call.val.str)
    /\ (call.fn = "write_map_len" /\ Done) =>
          HeaderLength(sink[1].bytes) = call.val.num
    /\ (StructCall /\ Done) =>
          HeaderLength(sink[1].bytes) = FromInt(Len(DeclaredFields(call.val)))

====
